---- MODULE Spec2Model ----
(***************************************************************************)
(* Verification model of cdelmas/aoc-2022: the main driver (src/main.rs)   *)
(* and the per-day pure computations (src/dayN/mod.rs).  Each part of the  *)
(* program has its own specification (SpecMain, SpecDay9, ...) over its    *)
(* own variables; the variables of the other parts stay idle.              *)
(***************************************************************************)
EXTENDS Integers, Sequences, FiniteSets, TLC

VARIABLES
    \* ---- src/main.rs ----
    main_pc,        \* index of the next block of main to execute
    main_exit,      \* "running", "returned" or "panicked"
    outcome,        \* per block of main: what its computation yielded
    stdout,         \* lines written with println!
    stderr,         \* lines written with eprintln! or by the panic handler
    \* ---- src/day9/mod.rs : move_rope ----
    head_moves,     \* the argument of move_rope
    d9_pc,          \* "loop" while the for loop over head_moves runs, then "done"
    mv_idx,         \* number of head moves already applied
    rope,           \* Vec<Position> of ROPE_SIZE knots, head first
    tail_visits,    \* BTreeSet<Position> of the cells seen by the last knot
    d9_result,      \* the value returned by move_rope
    \* ---- src/day11/mod.rs : rounds ----
    monkeys,        \* the argument monkeys of rounds
    d11_n,          \* the argument n of rounds
    d11_pc,         \* "loop" while the for loop over rounds runs, then "done"
    d11_round,      \* number of rounds already played
    items,          \* Vec<Vec<Item>>: what each monkey holds when a round starts
    nb_item_inspections,    \* Vec<u64>: inspections counted per monkey
    d11_result,     \* the value returned by rounds
    \* ---- src/day12/mod.rs : build_journey, Journey::path_hops ----
    map,            \* the argument map of build_journey: rows of characters
    d12_pc,         \* "build", then "hops", then "done"
    journey,        \* the Journey built: paths, possible_starts, end
    d12_result,     \* the Option<usize> returned by path_hops
    \* ---- src/day7/mod.rs : file_system, total_size_of_directories_up_to ----
    d7_pc,          \* "fold" while commands are folded, then "done"
    cmds,           \* the TreeBuildCommands folded so far
    tree,           \* the nodes of the dendron tree, in creation order
    d7_node,        \* the fold accumulator: the current node (index in tree)
    max_size,       \* the argument max_size of total_size_of_directories_up_to
    d7_total,       \* the value returned by total_size_of_directories_up_to
    \* ---- src/day6/mod.rs : find_marker ----
    buffer,         \* the argument buffer of find_marker
    marker_len,     \* the argument marker_len of find_marker
    d6_pc,          \* "scan" while position() goes through the windows, then "done"
    window_idx,     \* 0-based index of the window position() looks at next
    d6_result,      \* the Result<usize> returned by find_marker
    \* ---- src/day5/mod.rs : rearrange ----
    stacks_arg,     \* the argument stacks of rearrange (a Vec<Stack>)
    d5_pc,          \* "collect", then "moves" while the for loop runs, then "done"
    stacks,         \* the BTreeMap<StackId, Stack>: stack id -> crates, bottom first
    nb_moves,       \* number of moves already applied
    last_move,      \* the move m of the last iteration
    d5_result,      \* the Vec<Stack> returned by rearrange
    \* ---- src/day10/mod.rs : compute_signal_strength ----
    cycles,         \* the cycles the fold has consumed so far
    d10_pc,         \* "fold" while the iterator yields cycles, then "done"
    signal_strength,\* first component of the fold's accumulator
    current_x,      \* second component of the fold's accumulator
    d10_result,     \* the i32 returned by compute_signal_strength
    \* ---- the functions of days 5, 7, 9 and 10 that parse their input ----
    p_day,          \* which day's function runs
    p_lines,        \* the lines the input was made of (after the stacks of day 5)
    p_input,        \* the String read from the input file
    p_rest,         \* the input left to parse
    p_specs,        \* day 5 : the StacksSpecification parsed
    p_parsed,       \* the values many1 / fold_many1 has accumulated
    p_pc,           \* "stacks", "many1", "answer", then "done"
    p_result,       \* the Result returned, or the panic
    \* ---- src/day8/mod.rs : find_best_spot ----
    d8_data,        \* the argument data : the heights, row after row
    map_size,       \* the argument map_size : (nb_rows, nb_columns)
    d8_pc,          \* "call", then "done"
    d8_result,      \* the u32 returned by find_best_spot
    \* ---- src/day9/mod.rs : Position::move_next_to ----
    pos_self,       \* self : the Position that moves
    pos_target,     \* the argument target
    pos_before,     \* self when move_next_to was called
    pos_tracker,    \* the Vec<Position> returned
    pos_pc,         \* "call", then "done"
    \* ---- src/day4/mod.rs : ship_unload_overlaps ----
    d4_lines,       \* the lines of the input file
    d4_idx,         \* the lines the iterator has gone through
    d4_count,       \* the pairs that passed the filter so far
    d4_pc,          \* "lines", then "done"
    d4_result,      \* the Result returned, or the panic
    \* ---- src/day12/mod.rs : great_journey ----
    gj_lines,       \* the lines of the input file
    gj_pc,          \* "call", then "done"
    gj_result,      \* the Result returned, or the panic
    \* ---- src/day1/mod.rs : calories_carried ----
    d1_lines,       \* the lines of the input file
    d1_pc,          \* "call", then "done"
    d1_result,      \* the Result returned
    \* ---- src/day5/mod.rs : create_stacks ----
    cs_specs,       \* the argument stacks_specs : a StacksSpecification
    cs_pc,          \* "call", then "done"
    cs_result       \* the Vec<Stack> returned, or the panic

vars_main == <<main_pc, main_exit, outcome, stdout, stderr>>

vars_d9 == <<head_moves, d9_pc, mv_idx, rope, tail_visits, d9_result>>

vars_d11 == <<monkeys, d11_n, d11_pc, d11_round, items, nb_item_inspections, d11_result>>

vars_d12 == <<map, d12_pc, journey, d12_result>>

vars_d7 == <<d7_pc, cmds, tree, d7_node, max_size, d7_total>>

vars_d6 == <<buffer, marker_len, d6_pc, window_idx, d6_result>>

vars_d5 == <<stacks_arg, d5_pc, stacks, nb_moves, last_move, d5_result>>

vars_d10 == <<cycles, d10_pc, signal_strength, current_x, d10_result>>

vars_p == <<p_day, p_lines, p_input, p_rest, p_specs, p_parsed, p_pc, p_result>>

vars_d8 == <<d8_data, map_size, d8_pc, d8_result>>

vars_pos == <<pos_self, pos_target, pos_before, pos_tracker, pos_pc>>

vars_d4 == <<d4_lines, d4_idx, d4_count, d4_pc, d4_result>>

vars_gj == <<gj_lines, gj_pc, gj_result>>

vars_d1 == <<d1_lines, d1_pc, d1_result>>

vars_cs == <<cs_specs, cs_pc, cs_result>>

vars == <<vars_main, vars_d9, vars_d11, vars_d12, vars_d7, vars_d6, vars_d5, vars_d10, vars_p, vars_d8, vars_pos, vars_d4, vars_gj, vars_d1, vars_cs>>

(***************************************************************************)
(* Generic helpers                                                         *)
(***************************************************************************)
Abs(v) == IF v < 0 THEN -v ELSE v

Sign(v) == IF v < 0 THEN -1 ELSE IF v > 0 THEN 1 ELSE 0

Min2(a, b) == IF a <= b THEN a ELSE b

Range(s) == {s[k] : k \in 1..Len(s)}

RECURSIVE Reverse(_)
Reverse(s) == IF s = <<>> THEN <<>> ELSE Append(Reverse(Tail(s)), Head(s))

RECURSIVE SumSeq(_)
SumSeq(s) == IF s = <<>> THEN 0 ELSE Head(s) + SumSeq(Tail(s))

(***************************************************************************)
(* Idle values of each part, and what a part leaves alone                  *)
(***************************************************************************)
IdleMain ==
    /\ main_pc = 0
    /\ main_exit = "idle"
    /\ outcome = <<>>
    /\ stdout = <<>>
    /\ stderr = <<>>

IdleDay9 ==
    /\ head_moves = <<>>
    /\ d9_pc = "idle"
    /\ mv_idx = 0
    /\ rope = <<>>
    /\ tail_visits = {}
    /\ d9_result = 0

IdleDay11 ==
    /\ monkeys = <<>>
    /\ d11_n = 0
    /\ d11_pc = "idle"
    /\ d11_round = 0
    /\ items = <<>>
    /\ nb_item_inspections = <<>>
    /\ d11_result = <<>>

IdleDay12 ==
    /\ map = <<>>
    /\ d12_pc = "idle"
    /\ journey = <<>>
    /\ d12_result = <<>>

IdleDay7 ==
    /\ d7_pc = "idle"
    /\ cmds = <<>>
    /\ tree = <<>>
    /\ d7_node = 0
    /\ max_size = 0
    /\ d7_total = 0

IdleDay6 ==
    /\ buffer = <<>>
    /\ marker_len = 0
    /\ d6_pc = "idle"
    /\ window_idx = 0
    /\ d6_result = <<>>

IdleDay5 ==
    /\ stacks_arg = <<>>
    /\ d5_pc = "idle"
    /\ stacks = <<>>
    /\ nb_moves = 0
    /\ last_move = <<>>
    /\ d5_result = <<>>

IdleDay10 ==
    /\ cycles = <<>>
    /\ d10_pc = "idle"
    /\ signal_strength = 0
    /\ current_x = 0
    /\ d10_result = 0

IdleParsers ==
    /\ p_day = 0
    /\ p_lines = <<>>
    /\ p_input = ""
    /\ p_rest = ""
    /\ p_specs = <<>>
    /\ p_parsed = <<>>
    /\ p_pc = "idle"
    /\ p_result = <<>>

IdleDay8 ==
    /\ d8_data = <<>>
    /\ map_size = <<0, 0>>
    /\ d8_pc = "idle"
    /\ d8_result = 0

IdlePosition ==
    /\ pos_self = <<0, 0>>
    /\ pos_target = <<0, 0>>
    /\ pos_before = <<0, 0>>
    /\ pos_tracker = <<>>
    /\ pos_pc = "idle"

IdleDay4 ==
    /\ d4_lines = <<>>
    /\ d4_idx = 0
    /\ d4_count = 0
    /\ d4_pc = "idle"
    /\ d4_result = <<>>

IdleJourney ==
    /\ gj_lines = <<>>
    /\ gj_pc = "idle"
    /\ gj_result = <<>>

IdleDay1 ==
    /\ d1_lines = <<>>
    /\ d1_pc = "idle"
    /\ d1_result = <<>>

IdleCreateStacks ==
    /\ cs_specs = <<>>
    /\ cs_pc = "idle"
    /\ cs_result = <<>>

IdleOthers(part) ==
    /\ (IF part = "main" THEN TRUE ELSE IdleMain)
    /\ (IF part = "day9" THEN TRUE ELSE IdleDay9)
    /\ (IF part = "day11" THEN TRUE ELSE IdleDay11)
    /\ (IF part = "day12" THEN TRUE ELSE IdleDay12)
    /\ (IF part = "day7" THEN TRUE ELSE IdleDay7)
    /\ (IF part = "day6" THEN TRUE ELSE IdleDay6)
    /\ (IF part = "day5" THEN TRUE ELSE IdleDay5)
    /\ (IF part = "day10" THEN TRUE ELSE IdleDay10)
    /\ (IF part = "parsers" THEN TRUE ELSE IdleParsers)
    /\ (IF part = "stacks" THEN TRUE ELSE IdleCreateStacks)
    /\ (IF part = "day1" THEN TRUE ELSE IdleDay1)
    /\ (IF part = "journey" THEN TRUE ELSE IdleJourney)
    /\ (IF part = "day4" THEN TRUE ELSE IdleDay4)
    /\ (IF part = "position" THEN TRUE ELSE IdlePosition)
    /\ (IF part = "day8" THEN TRUE ELSE IdleDay8)

Others(part) ==
    /\ (IF part = "main" THEN TRUE ELSE UNCHANGED vars_main)
    /\ (IF part = "day9" THEN TRUE ELSE UNCHANGED vars_d9)
    /\ (IF part = "day11" THEN TRUE ELSE UNCHANGED vars_d11)
    /\ (IF part = "day12" THEN TRUE ELSE UNCHANGED vars_d12)
    /\ (IF part = "day7" THEN TRUE ELSE UNCHANGED vars_d7)
    /\ (IF part = "day6" THEN TRUE ELSE UNCHANGED vars_d6)
    /\ (IF part = "day5" THEN TRUE ELSE UNCHANGED vars_d5)
    /\ (IF part = "day10" THEN TRUE ELSE UNCHANGED vars_d10)
    /\ (IF part = "parsers" THEN TRUE ELSE UNCHANGED vars_p)
    /\ (IF part = "stacks" THEN TRUE ELSE UNCHANGED vars_cs)
    /\ (IF part = "day1" THEN TRUE ELSE UNCHANGED vars_d1)
    /\ (IF part = "journey" THEN TRUE ELSE UNCHANGED vars_gj)
    /\ (IF part = "day4" THEN TRUE ELSE UNCHANGED vars_d4)
    /\ (IF part = "position" THEN TRUE ELSE UNCHANGED vars_pos)
    /\ (IF part = "day8" THEN TRUE ELSE UNCHANGED vars_d8)

(***************************************************************************)
(* src/main.rs : main                                                      *)
(*   The body of main is a sequence of blocks, one per puzzle function.    *)
(***************************************************************************)
Blocks == <<"day1", "day2", "day3", "day3_2", "day4", "day5", "day6",
            "day7", "day8", "day9", "day10", "day11", "day12">>

NbBlocks == Len(Blocks)

BlockIndex(name) == CHOOSE k \in 1..NbBlocks : Blocks[k] = name

\* Blocks of the shape  match f(path) { Ok(v) => println!(..), Err(_) => eprintln!(..) }
SimpleBlocks == 1..(BlockIndex("day11") - 1)

InitMain ==
    /\ main_pc = 1
    /\ main_exit = "running"
    /\ outcome = [k \in 1..NbBlocks |-> "not_run"]
    /\ stdout = <<>>
    /\ stderr = <<>>
    /\ IdleOthers("main")

\* main.rs:35-117 : a day function returns Ok (answer printed on stdout) or
\* Err (message on stderr); main then goes on with the next block.
RunDay(k) ==
    /\ main_exit = "running"
    /\ main_pc = k
    /\ k \in SimpleBlocks
    /\ \E res \in {"Ok", "Err"} :
         /\ outcome' = [outcome EXCEPT ![k] = res]
         /\ IF res = "Ok"
              THEN /\ stdout' = Append(stdout, <<Blocks[k], "answer">>)
                   /\ UNCHANGED stderr
              ELSE /\ stderr' = Append(stderr, <<Blocks[k], "Something went wrong">>)
                   /\ UNCHANGED stdout
    /\ main_pc' = k + 1
    /\ UNCHANGED main_exit
    /\ Others("main")

\* main.rs:119-150 : the day 11 block.  read_to_string(..).unwrap() panics on
\* a missing file; a parse error of kind Base is rendered and printed with
\* println!, kinds Stack and Alt hit todo!(); every parse error path leaves
\* main (return or panic).
Day11Block ==
    /\ main_exit = "running"
    /\ main_pc = BlockIndex("day11")
    /\ \E res \in {"Ok", "Missing", "ErrBase", "ErrStack", "ErrAlt"} :
         /\ outcome' = [outcome EXCEPT ![main_pc] = res]
         /\ CASE res = "Ok" ->
                   /\ stdout' = Append(stdout, <<"day11", "answer">>)
                   /\ UNCHANGED stderr
                   /\ main_pc' = main_pc + 1
                   /\ UNCHANGED main_exit
              [] res = "ErrBase" ->
                   /\ stdout' = Append(stdout, <<"day11", "bad input report">>)
                   /\ UNCHANGED stderr
                   /\ main_exit' = "returned"
                   /\ UNCHANGED main_pc
              [] OTHER ->
                   /\ stderr' = Append(stderr, <<"day11", "panic">>)
                   /\ UNCHANGED stdout
                   /\ main_exit' = "panicked"
                   /\ UNCHANGED main_pc
    /\ Others("main")

\* main.rs:152-156 : the day 12 block, then the end of main.
Day12Block ==
    /\ main_exit = "running"
    /\ main_pc = BlockIndex("day12")
    /\ \E res \in {"Ok", "Err"} :
         /\ outcome' = [outcome EXCEPT ![main_pc] = res]
         /\ IF res = "Ok"
              THEN /\ stdout' = Append(stdout, <<"day12", "answer">>)
                   /\ UNCHANGED stderr
              ELSE /\ stderr' = Append(stderr, <<"day12", "Something went wrong">>)
                   /\ UNCHANGED stdout
    /\ main_pc' = main_pc + 1
    /\ main_exit' = "returned"
    /\ Others("main")

NextMain ==
    \/ \E k \in SimpleBlocks : RunDay(k)
    \/ Day11Block
    \/ Day12Block

SpecMain == InitMain /\ [][NextMain]_vars

MainTerminated == main_exit \in {"returned", "panicked"}

Failed(k) == outcome[k] \notin {"not_run", "Ok"}

\* C1: when one day's computation fails, every later day's computation is
\* still run: once main has terminated, every block after a failed block has
\* been run (in particular day 12 after a failure of day 11).
C1_LaterDaysStillRun ==
    MainTerminated =>
        \A k \in 1..NbBlocks : Failed(k) =>
            \A l \in (k + 1)..NbBlocks : outcome[l] # "not_run"

(***************************************************************************)
(* src/day9/mod.rs : Move, Position, move_rope                             *)
(*   A Move is [dir, d] with d a u8; a Position is <<x, y>>.               *)
(***************************************************************************)
ROPE_SIZE == 10

TAIL_INDEX == ROPE_SIZE - 1

HEAD_INDEX == 0

MaxMoves == 3

MaxDist == 8

Directions == {"U", "D", "L", "R"}

MoveSet == [dir : Directions, d : 0..MaxDist]

RECURSIVE SeqsUpTo(_, _)
SeqsUpTo(S, n) ==
    IF n = 0 THEN {<<>>}
    ELSE LET shorter == SeqsUpTo(S, n - 1)
         IN  shorter \cup {Append(s, e) : s \in {t \in shorter : Len(t) = n - 1}, e \in S}

\* Move::on_x
on_x(val) == IF val < 0 THEN [dir |-> "L", d |-> Abs(val)]
                        ELSE [dir |-> "R", d |-> Abs(val)]

\* Move::on_y
on_y(val) == IF val < 0 THEN [dir |-> "D", d |-> Abs(val)]
                        ELSE [dir |-> "U", d |-> Abs(val)]

\* Move::small_step
small_step(mv) == [dir |-> mv.dir, d |-> IF mv.d # 0 THEN 1 ELSE 0]

\* Position::move_to
move_to(p, mv) ==
    CASE mv.dir = "U" -> <<p[1], p[2] + mv.d>>
      [] mv.dir = "D" -> <<p[1], p[2] - mv.d>>
      [] mv.dir = "L" -> <<p[1] - mv.d, p[2]>>
      [] mv.dir = "R" -> <<p[1] + mv.d, p[2]>>

\* Position::is_around
is_around(p, other) == Abs(p[1] - other[1]) <= 1 /\ Abs(p[2] - other[2]) <= 1

\* path_to, were its last arm a step along x alone
path_to_along_x(p, other) ==
    IF other[1] # p[1] THEN <<small_step(on_x(other[1] - p[1]))>>
    ELSE IF other[2] # p[2] THEN <<small_step(on_y(other[2] - p[2]))>>
    ELSE <<>>

\* Position::path_to
path_to(p, other) ==
    LET x == other[1] - p[1]
        y == other[2] - p[2]
    IN  CASE x = 0 /\ y = 0 -> <<>>
          [] x = 0 /\ y # 0 -> <<small_step(on_y(y))>>
          [] x # 0 /\ y = 0 -> <<small_step(on_x(x))>>
          [] OTHER -> <<small_step(on_x(x)), small_step(on_y(y))>>

RECURSIVE apply_moves(_, _)
apply_moves(p, mvs) ==
    IF mvs = <<>> THEN p ELSE apply_moves(move_to(p, Head(mvs)), Tail(mvs))

\* Position::move_next_to : the while loop; returns the final position and
\* the tracker of the positions gone through.
RECURSIVE move_next_to_loop(_, _, _)
move_next_to_loop(p, target, tracker) ==
    IF is_around(p, target) THEN [pos |-> p, tracker |-> tracker]
    ELSE LET q == apply_moves(p, path_to(p, target))
         IN  move_next_to_loop(q, target, Append(tracker, q))

move_next_to(p, target) == move_next_to_loop(p, target, <<>>)

\* move_rope, lines 165-182 : knots 1..ROPE_SIZE-1 follow their predecessor
\* in order; r is indexed from 1 (knot i of the code is r[i + 1]).
RECURSIVE follow(_, _, _)
follow(r, visits, i) ==
    IF i >= ROPE_SIZE THEN [rope |-> r, visits |-> visits]
    ELSE LET local_head == r[i]
             moved == move_next_to(r[i + 1], local_head)
             r2 == [r EXCEPT ![i + 1] = moved.pos]
             v2 == IF i = TAIL_INDEX THEN visits \cup Range(moved.tracker)
                                    ELSE visits
         IN  follow(r2, v2, i + 1)

InitDay9 ==
    /\ head_moves \in SeqsUpTo(MoveSet, MaxMoves)
    /\ d9_pc = "loop"
    /\ mv_idx = 0
    /\ rope = [k \in 1..ROPE_SIZE |-> <<0, 0>>]
    /\ tail_visits = {<<0, 0>>}
    /\ d9_result = 0
    /\ IdleOthers("day9")

\* One iteration of `for mv in head_moves` (lines 161-184).
MoveRopeStep ==
    /\ d9_pc = "loop"
    /\ mv_idx < Len(head_moves)
    /\ LET mv == head_moves[mv_idx + 1]
           r1 == [rope EXCEPT ![HEAD_INDEX + 1] = move_to(rope[HEAD_INDEX + 1], mv)]
           res == follow(r1, tail_visits, 1)
       IN  /\ rope' = res.rope
           /\ tail_visits' = res.visits
    /\ mv_idx' = mv_idx + 1
    /\ UNCHANGED <<head_moves, d9_pc, d9_result>>
    /\ Others("day9")

\* Line 185 : tail_visits.len()
MoveRopeReturn ==
    /\ d9_pc = "loop"
    /\ mv_idx = Len(head_moves)
    /\ d9_result' = Cardinality(tail_visits)
    /\ d9_pc' = "done"
    /\ UNCHANGED <<head_moves, mv_idx, rope, tail_visits>>
    /\ Others("day9")

NextDay9 ==
    \/ MoveRopeStep
    \/ MoveRopeReturn

SpecDay9 == InitDay9 /\ [][NextDay9]_vars

\* Reference simulation: the head advances one unit at a time; after each
\* unit step every following knot, in order, makes at most one step toward
\* its predecessor when it is not adjacent to it.
RefKnot(p, t) ==
    IF Abs(t[1] - p[1]) <= 1 /\ Abs(t[2] - p[2]) <= 1 THEN p
    ELSE <<p[1] + Sign(t[1] - p[1]), p[2] + Sign(t[2] - p[2])>>

RECURSIVE RefFollow(_, _)
RefFollow(r, i) ==
    IF i > Len(r) THEN r
    ELSE RefFollow([r EXCEPT ![i] = RefKnot(r[i], r[i - 1])], i + 1)

RefUnit(dir) ==
    CASE dir = "U" -> <<0, 1>>
      [] dir = "D" -> <<0, -1>>
      [] dir = "L" -> <<-1, 0>>
      [] dir = "R" -> <<1, 0>>

\* st = [rope, visits]; n unit steps in direction dir
RECURSIVE RefUnitSteps(_, _, _)
RefUnitSteps(st, dir, n) ==
    IF n = 0 THEN st
    ELSE LET h == <<st.rope[1][1] + RefUnit(dir)[1], st.rope[1][2] + RefUnit(dir)[2]>>
             r == RefFollow([st.rope EXCEPT ![1] = h], 2)
         IN  RefUnitSteps([rope |-> r, visits |-> st.visits \cup {r[Len(r)]}], dir, n - 1)

RECURSIVE RefRun(_, _)
RefRun(st, mvs) ==
    IF mvs = <<>> THEN st
    ELSE RefRun(RefUnitSteps(st, Head(mvs).dir, Head(mvs).d), Tail(mvs))

RefTailCount(mvs) ==
    Cardinality(RefRun([rope |-> [k \in 1..ROPE_SIZE |-> <<0, 0>>],
                        visits |-> {<<0, 0>>}], mvs).visits)

\* C3: move_rope returns the number of distinct cells occupied by the last
\* knot of the 10-knot rope under the unit-step reference simulation.
C3_MoveRopeMatchesUnitSteps ==
    d9_pc = "done" => d9_result = RefTailCount(head_moves)

(***************************************************************************)
(* src/day11/mod.rs : Monkey, ThrowDecision, rounds                        *)
(*   A monkey is [id, items, operation, throw_decision]; an operation is   *)
(*   [kind, x] with kind "Add", "Mult" or "Square"; monkey ids are the     *)
(*   0-based indices the code uses to address round_items.  Worry values   *)
(*   are u64 in the code; with the moduli below they stay far under 2^64.  *)
(***************************************************************************)
MaxMonkeys == 2

MaxItems == 1

MaxRounds == 3

WorryCap == 1000000

ItemValues == {1, 2, 3}

Ops == {[kind |-> "Add", x |-> 1], [kind |-> "Mult", x |-> 2], [kind |-> "Square", x |-> 0]}

Moduli == {2, 3}

MonkeySet(m) ==
    [items : SeqsUpTo(ItemValues, MaxItems),
     operation : Ops,
     throw_decision : [modulus : Moduli, if_true : 0..(m - 1), if_false : 0..(m - 1)]]

\* ThrowDecision::take_decision
take_decision(td, item_value) ==
    IF item_value % td.modulus = 0 THEN td.if_true ELSE td.if_false

\* Monkey::inspect_item
inspect_item(monkey, item, md) ==
    LET new_worry_value ==
            CASE monkey.operation.kind = "Add" -> (item % md) + monkey.operation.x
              [] monkey.operation.kind = "Mult" -> (item % md) * monkey.operation.x
              [] monkey.operation.kind = "Square" -> (item % md) * (item % md)
    IN  [throw_to |-> take_decision(monkey.throw_decision, new_worry_value),
         item |-> new_worry_value]

\* rounds, line 186 : the product of the moduli of all monkeys
RECURSIVE product_of_moduli(_)
product_of_moduli(ms) ==
    IF ms = <<>> THEN 1
    ELSE Head(ms).throw_decision.modulus * product_of_moduli(Tail(ms))

\* rounds, lines 198-201 : the items of one monkey are inspected and thrown
RECURSIVE throw_items(_, _, _, _)
throw_items(round_items, monkey, items_to_inspect, md) ==
    IF items_to_inspect = <<>> THEN round_items
    ELSE LET r == inspect_item(monkey, Head(items_to_inspect), md)
         IN  throw_items([round_items EXCEPT ![r.throw_to + 1] = Append(@, r.item)],
                         monkey, Tail(items_to_inspect), md)

\* rounds, lines 192-202 : the turns of monkeys mk, mk+1, ... of one round
\* (mk is 0-based; st = [round_items, inspections])
RECURSIVE monkey_turns(_, _, _, _, _)
monkey_turns(ms, its, st, mk, md) ==
    IF mk >= Len(its) THEN st
    ELSE LET items_to_inspect == its[mk + 1] \o st.round_items[mk + 1]
             cleared == [st.round_items EXCEPT ![mk + 1] = <<>>]
             counted == [st.inspections EXCEPT ![mk + 1] = @ + Len(items_to_inspect)]
         IN  monkey_turns(ms, its,
                          [round_items |-> throw_items(cleared, ms[mk + 1], items_to_inspect, md),
                           inspections |-> counted],
                          mk + 1, md)

\* A round in which a monkey inspects only what it held when the round
\* started: what it receives during the round waits for the next round.
RECURSIVE turns_without_pickup(_, _, _, _, _)
turns_without_pickup(ms, its, st, mk, md) ==
    IF mk >= Len(its) THEN st
    ELSE LET items_to_inspect == its[mk + 1]
             counted == [st.inspections EXCEPT ![mk + 1] = @ + Len(items_to_inspect)]
         IN  turns_without_pickup(ms, its,
                          [round_items |-> throw_items(st.round_items, ms[mk + 1], items_to_inspect, md),
                           inspections |-> counted],
                          mk + 1, md)

one_round_without_pickup(ms, its, inspections) ==
    turns_without_pickup(ms, its,
                 [round_items |-> [k \in 1..Len(its) |-> <<>>], inspections |-> inspections],
                 0, product_of_moduli(ms))

\* rounds, lines 190-203 : one round
one_round(ms, its, inspections) ==
    monkey_turns(ms, its,
                 [round_items |-> [k \in 1..Len(its) |-> <<>>], inspections |-> inspections],
                 0, product_of_moduli(ms))

InitDay11 ==
    /\ \E m \in 1..MaxMonkeys : monkeys \in [1..m -> MonkeySet(m)]
    /\ d11_n \in 0..MaxRounds
    /\ d11_pc = "loop"
    /\ d11_round = 0
    /\ items = [k \in 1..Len(monkeys) |-> monkeys[k].items]
    /\ nb_item_inspections = [k \in 1..Len(monkeys) |-> 0]
    /\ d11_result = <<>>
    /\ IdleOthers("day11")

\* One iteration of `for _ in 0..d11_n` (lines 189-204).
RoundStep ==
    /\ d11_pc = "loop"
    /\ d11_round < d11_n
    /\ LET st == one_round(monkeys, items, nb_item_inspections)
       IN  /\ items' = st.round_items
           /\ nb_item_inspections' = st.inspections
    /\ d11_round' = d11_round + 1
    /\ UNCHANGED <<monkeys, d11_n, d11_pc, d11_result>>
    /\ Others("day11")

\* Line 205 : the inspection counts are returned.
RoundsReturn ==
    /\ d11_pc = "loop"
    /\ d11_round = d11_n
    /\ d11_result' = nb_item_inspections
    /\ d11_pc' = "done"
    /\ UNCHANGED <<monkeys, d11_n, d11_round, items, nb_item_inspections>>
    /\ Others("day11")

NextDay11 ==
    \/ RoundStep
    \/ RoundsReturn

SpecDay11 == InitDay11 /\ [][NextDay11]_vars

\* Reference round-robin simulation with exact worry values.  A value above
\* WorryCap is recorded as -1 and stays -1: inputs on which that happens are
\* outside what the check covers.
RefApply(op, v) ==
    IF v < 0 THEN -1
    ELSE CASE op.kind = "Add" -> IF v + op.x > WorryCap THEN -1 ELSE v + op.x
           [] op.kind = "Mult" -> IF op.x # 0 /\ v > WorryCap \div op.x THEN -1 ELSE v * op.x
           [] op.kind = "Square" -> IF v # 0 /\ v > WorryCap \div v THEN -1 ELSE v * v

\* st = [held, count, over]; the monkey at 0-based index mk inspects list l
RECURSIVE RefInspectAll(_, _, _, _)
RefInspectAll(ms, st, mk, l) ==
    IF l = <<>> THEN st
    ELSE LET m == ms[mk + 1]
             v == RefApply(m.operation, Head(l))
             to == IF v >= 0 /\ v % m.throw_decision.modulus = 0
                     THEN m.throw_decision.if_true
                     ELSE m.throw_decision.if_false
         IN  RefInspectAll(ms,
                           [held |-> [st.held EXCEPT ![to + 1] = Append(@, v)],
                            count |-> [st.count EXCEPT ![mk + 1] = @ + 1],
                            over |-> st.over \/ v < 0],
                           mk, Tail(l))

RECURSIVE RefTurns(_, _, _)
RefTurns(ms, st, mk) ==
    IF mk >= Len(ms) THEN st
    ELSE LET holding == st.held[mk + 1]
             emptied == [st EXCEPT !.held[mk + 1] = <<>>]
         IN  RefTurns(ms, RefInspectAll(ms, emptied, mk, holding), mk + 1)

RECURSIVE RefRounds(_, _, _)
RefRounds(ms, st, k) ==
    IF k = 0 THEN st ELSE RefRounds(ms, RefTurns(ms, st, 0), k - 1)

RefInspections(ms, k) ==
    RefRounds(ms, [held |-> [j \in 1..Len(ms) |-> ms[j].items],
                   count |-> [j \in 1..Len(ms) |-> 0],
                   over |-> FALSE], k)

\* C4: rounds(monkeys, d11_n) returns, per monkey, the number of items the
\* monkey inspects in the reference round-robin simulation of n rounds.
C4_RoundsCountsInspections ==
    d11_pc = "done" =>
        LET ref == RefInspections(monkeys, d11_n)
        IN  ~ref.over => d11_result = ref.count

\* C4 witness: three rounds were played by two monkeys, the reference stayed
\* under the cap, and some monkey inspected more items in a round than it
\* held when the round started (it picked up items thrown in the same round).
C4_Witness ==
    /\ d11_pc = "done"
    /\ d11_n = MaxRounds
    /\ Len(monkeys) = 2
    /\ ~RefInspections(monkeys, d11_n).over
    /\ d11_result[2] > d11_n * Len(monkeys[2].items)
    /\ d11_result[1] > 0

(***************************************************************************)
(* src/day12/mod.rs : to_elevation, build_journey, Journey::path_hops      *)
(*   A map is a sequence of rows of one-character strings.  Nodes of the   *)
(*   road map are numbered from 0 in the order build_journey adds them.    *)
(***************************************************************************)
ROAD_START == "S"

ROAD_END == "E"

LOWEST_ELEVATION == "a"

Lowercase == <<"a", "b", "c", "d", "e", "f", "g", "h", "i", "j", "k", "l", "m",
               "n", "o", "p", "q", "r", "s", "t", "u", "v", "w", "x", "y", "z">>

\* The code point of an ASCII lowercase letter ('a' is 97).
CodePoints == [c \in Range(Lowercase) |-> 96 + (CHOOSE k \in 1..Len(Lowercase) : Lowercase[k] = c)]

CodePoint(c) == CodePoints[c]

\* to_elevation
to_elevation(c) ==
    CASE c = ROAD_START -> CodePoint("a")
      [] c = ROAD_END -> CodePoint("z")
      [] c \in Range(Lowercase) -> CodePoint(c)

\* The map of tests::path_length (lines 130-136).
TestMap ==
    << <<"S", "a", "b", "q", "p", "o", "n", "m">>,
       <<"a", "b", "c", "r", "y", "x", "x", "l">>,
       <<"a", "c", "c", "s", "z", "E", "x", "k">>,
       <<"a", "c", "c", "t", "u", "v", "w", "j">>,
       <<"a", "b", "d", "e", "f", "g", "h", "i">> >>

\* A 2 x 13 map whose only way up is the whole spiral.
SpiralMap ==
    << <<"a", "b", "c", "d", "e", "f", "g", "h", "i", "j", "k", "l", "m">>,
       <<"E", "y", "x", "w", "v", "u", "t", "s", "r", "q", "p", "o", "n">> >>

MaxChanges == 1

ChangeChars == {"a", "S", "c", "m", "z"}

\* The maps obtained from m by replacing at most k cells other than E.
RECURSIVE MapVariants(_, _)
MapVariants(m, k) ==
    IF k = 0 THEN {m}
    ELSE LET prev == MapVariants(m, k - 1)
         IN  prev \cup {[v EXCEPT ![i][j] = c] :
                          v \in prev,
                          i \in {r \in 1..Len(m) : TRUE},
                          j \in 1..Len(m[1]),
                          c \in ChangeChars}

KeepsEnd(m, v) ==
    \A i \in 1..Len(m) : \A j \in 1..Len(m[i]) : (m[i][j] = ROAD_END) <=> (v[i][j] = ROAD_END)

\* build_journey, lines 72-102.  Rows and columns are 0-based as in the code.
\* Cell (i, j) is added as node number (cells of the rows before) + j; its
\* upper and left neighbours are addressed as (i - 1) * width + j and
\* i * width + j - 1.
CellsBefore(m, i) == SumSeq([r \in 1..i |-> Len(m[r])])

added_node(m, i, j) == CellsBefore(m, i) + j

\* The edges with their direction exchanged: a step may go down by at most
\* one and up by any amount.
cell_edges_downhill(m, width, i, j) ==
    LET elevation == to_elevation(m[i + 1][j + 1])
        node == added_node(m, i, j)
        up == IF i > 0
                THEN LET neighbour_elevation == to_elevation(m[i][j + 1])
                         neighbour == (i - 1) * width + j
                     IN  (IF neighbour_elevation - elevation <= 1
                            THEN {<<neighbour, node>>} ELSE {})
                         \cup
                         (IF elevation - neighbour_elevation <= 1
                            THEN {<<node, neighbour>>} ELSE {})
                ELSE {}
        left == IF j > 0
                  THEN LET neighbour_elevation == to_elevation(m[i + 1][j])
                           neighbour == i * width + j - 1
                       IN  (IF neighbour_elevation - elevation <= 1
                              THEN {<<neighbour, node>>} ELSE {})
                           \cup
                           (IF elevation - neighbour_elevation <= 1
                              THEN {<<node, neighbour>>} ELSE {})
                  ELSE {}
    IN  up \cup left

cell_edges(m, width, i, j) ==
    LET elevation == to_elevation(m[i + 1][j + 1])
        node == added_node(m, i, j)
        up == IF i > 0
                THEN LET neighbour_elevation == to_elevation(m[i][j + 1])
                         neighbour == (i - 1) * width + j
                     IN  (IF neighbour_elevation - elevation <= 1
                            THEN {<<node, neighbour>>} ELSE {})
                         \cup
                         (IF elevation - neighbour_elevation <= 1
                            THEN {<<neighbour, node>>} ELSE {})
                ELSE {}
        left == IF j > 0
                  THEN LET neighbour_elevation == to_elevation(m[i + 1][j])
                           neighbour == i * width + j - 1
                       IN  (IF neighbour_elevation - elevation <= 1
                              THEN {<<node, neighbour>>} ELSE {})
                           \cup
                           (IF elevation - neighbour_elevation <= 1
                              THEN {<<neighbour, node>>} ELSE {})
                  ELSE {}
    IN  up \cup left

Cells(m) == {<<i, j>> \in (0..(Len(m) - 1)) \X (0..(Len(m[1]) - 1)) : j < Len(m[i + 1])}

\* The cells in the order of the two for loops, from row i on.
RECURSIVE cells_in_order(_, _)
cells_in_order(m, i) ==
    IF i >= Len(m) THEN <<>>
    ELSE [j \in 1..Len(m[i + 1]) |-> <<i, j - 1>>] \o cells_in_order(m, i + 1)

build_journey(m) ==
    LET width == Len(m[1])
        edges == UNION {cell_edges(m, width, c[1], c[2]) : c \in Cells(m)}
        node_count == CellsBefore(m, Len(m))
        ends == {c \in Cells(m) : m[c[1] + 1][c[2] + 1] = ROAD_END}
        starts == {c \in Cells(m) :
                     /\ m[c[1] + 1][c[2] + 1] # ROAD_END
                     /\ to_elevation(m[c[1] + 1][c[2] + 1]) = to_elevation(LOWEST_ELEVATION)}
        \* end_node holds the last E cell met
        last_end == CHOOSE c \in ends :
                        \A o \in ends : added_node(m, o[1], o[2]) <= added_node(m, c[1], c[2])
    IN  [paths |-> [v \in 0..(node_count - 1) |-> {e[2] : e \in {f \in edges : f[1] = v}}],
         possible_starts |-> LET is_start(c) == c \in starts
                                 order == SelectSeq(cells_in_order(m, 0), is_start)
                             IN  [k \in 1..Len(order) |-> added_node(m, order[k][1], order[k][2])],
         end |-> added_node(m, last_end[1], last_end[2])]

\* petgraph::algo::dijkstra with every edge cost 1 and goal Some(end): the
\* cost of the cheapest path from start to goal, -1 when the goal is not in
\* the distance map.
RECURSIVE dijkstra_levels(_, _, _, _, _)
dijkstra_levels(paths, frontier, visited, goal, d) ==
    IF goal \in frontier THEN d
    ELSE IF frontier = {} THEN -1
    ELSE LET next == UNION {paths[v] : v \in frontier} \ visited
         IN  dijkstra_levels(paths, next, visited \cup next, goal, d + 1)

dijkstra(paths, start, goal) == dijkstra_levels(paths, {start}, {start}, goal, 0)

\* Journey::path_hops : filter_map over possible_starts, then min
path_hops(jn) ==
    LET found == {d \in {dijkstra(jn.paths, jn.possible_starts[k], jn.end) :
                           k \in 1..Len(jn.possible_starts)} : d >= 0}
    IN  IF found = {} THEN [some |-> FALSE, hops |-> 0]
        ELSE [some |-> TRUE, hops |-> CHOOSE d \in found : \A o \in found : d <= o]

InitDay12 ==
    /\ \E base \in {TestMap, SpiralMap} :
         map \in {v \in MapVariants(base, MaxChanges) : KeepsEnd(base, v)}
    /\ d12_pc = "build"
    /\ journey = <<>>
    /\ d12_result = <<>>
    /\ IdleOthers("day12")

\* build_journey(&map)
BuildJourney ==
    /\ d12_pc = "build"
    /\ journey' = build_journey(map)
    /\ d12_pc' = "hops"
    /\ UNCHANGED <<map, d12_result>>
    /\ Others("day12")

\* journey.path_hops()
PathHops ==
    /\ d12_pc = "hops"
    /\ d12_result' = path_hops(journey)
    /\ d12_pc' = "done"
    /\ UNCHANGED <<map, journey>>
    /\ Others("day12")

NextDay12 ==
    \/ BuildJourney
    \/ PathHops

SpecDay12 == InitDay12 /\ [][NextDay12]_vars

\* Reference, on the cells of the map: a step goes from a cell to one of its
\* four neighbours whose height is at most one more; RefWithin(m, S, k) is
\* the set of cells reachable from S in at most k steps.
RefHeights ==
    [c \in Range(Lowercase) \cup {"S", "E"} |->
        IF c = "S" THEN 1 ELSE IF c = "E" THEN 26
        ELSE CHOOSE k \in 1..26 : Lowercase[k] = c]

RefCells(m) == (1..Len(m)) \X (1..Len(m[1]))

RefNeighbours(m, p) ==
    {q \in {<<p[1] - 1, p[2]>>, <<p[1] + 1, p[2]>>, <<p[1], p[2] - 1>>, <<p[1], p[2] + 1>>} :
        /\ q \in RefCells(m)
        /\ RefHeights[m[q[1]][q[2]]] <= RefHeights[m[p[1]][p[2]]] + 1}

RECURSIVE RefDistance(_, _, _, _, _)
RefDistance(m, reached, newest, goal, k) ==
    IF goal \in reached THEN k
    ELSE LET more == UNION {RefNeighbours(m, p) : p \in newest} \ reached
         IN  IF more = {} THEN -1
             ELSE RefDistance(m, reached \cup more, more, goal, k + 1)

RefShortest(m) ==
    LET lowest == {p \in RefCells(m) : m[p[1]][p[2]] \in {"a", "S"}}
        goal == CHOOSE p \in RefCells(m) : m[p[1]][p[2]] = "E"
    IN  RefDistance(m, lowest, lowest, goal, 0)

\* C5: path_hops on build_journey(map) returns Some(d) with d the least
\* number of steps from a lowest cell ('a' or S) to E, and None exactly when
\* no lowest cell can reach E.
C5_PathHopsIsShortest ==
    d12_pc = "done" =>
        LET d == RefShortest(map)
        IN  IF d < 0 THEN d12_result.some = FALSE
            ELSE d12_result = [some |-> TRUE, hops |-> d]

\* C5 witness: a changed test map with several lowest cells on which a path
\* exists and is longer than on the unchanged test map.
C5_WitnessSome ==
    /\ d12_pc = "done"
    /\ map # TestMap /\ Len(map) = Len(TestMap)
    /\ Len(journey.possible_starts) > 1
    /\ d12_result.some /\ d12_result.hops > 29

\* A map with lowest cells none of which reaches E.

C5_WitnessNone ==
    /\ d12_pc = "done"
    /\ d12_result.some = FALSE
    /\ Len(journey.possible_starts) > 0

(***************************************************************************)
(* src/day7/mod.rs : FsNode, file_system (the fold), total_size_of_...      *)
(*   The tree is the sequence of its nodes in creation order; a node is    *)
(*   [kind, name, size, parent], parent = 0 for the root.  Children are    *)
(*   created as last child, so the children of a node are in index order.  *)
(***************************************************************************)
MaxCmds == 5

MaxSizeArg == 4

Names == {"a", "b"}

FileSizes == {1, 2}

TreeBuildCommand ==
    {[cmd |-> "MoveToParent"], [cmd |-> "DoNothing"]}
    \cup [cmd : {"MoveTo"}, name : Names \cup {"/"}]
    \cup [cmd : {"CreateDir"}, name : Names]
    \cup [cmd : {"CreateFile"}, name : Names, size : FileSizes]

\* FsNode::new_dir, FsNode::new_file
new_dir(name, parent) == [kind |-> "FsDirectory", name |-> name, size |-> 0, parent |-> parent]

new_file(name, size, parent) == [kind |-> "FsFile", name |-> name, size |-> size, parent |-> parent]

\* FsNode::increase_size : only a directory grows
increase_size(nd, sz) ==
    IF nd.kind = "FsDirectory" THEN [nd EXCEPT !.size = @ + sz] ELSE nd

\* Node::children, in order
children(t, p) == {k \in 1..Len(t) : t[k].parent = p}

\* Only the node itself, not its ancestors.
self_only(t, k) == IF k = 0 THEN {} ELSE {k}

\* Node::ancestors_or_self
RECURSIVE ancestors_or_self(_, _)
ancestors_or_self(t, k) ==
    IF k = 0 THEN {} ELSE {k} \cup ancestors_or_self(t, t[k].parent)

\* The closure folded by fold_many1 (lines 171-190); st = [tree, node].
fold_command(st, c) ==
    CASE c.cmd = "MoveToParent" ->
            [st EXCEPT !.node = IF st.tree[st.node].parent # 0
                                  THEN st.tree[st.node].parent ELSE st.node]
      [] c.cmd = "MoveTo" ->
            LET found == {k \in children(st.tree, st.node) : st.tree[k].name = c.name}
            IN  [st EXCEPT !.node = IF found # {}
                                      THEN CHOOSE k \in found : \A o \in found : k <= o
                                      ELSE st.node]
      [] c.cmd = "CreateDir" ->
            [st EXCEPT !.tree = Append(st.tree, new_dir(c.name, st.node))]
      [] c.cmd = "CreateFile" ->
            LET created == Append(st.tree, new_file(c.name, c.size, st.node))
                grown == ancestors_or_self(created, st.node)
            IN  [st EXCEPT !.tree = [k \in 1..Len(created) |->
                                        IF k \in grown THEN increase_size(created[k], c.size)
                                                       ELSE created[k]]]
      [] c.cmd = "DoNothing" -> st

\* total_size_of_directories_up_to : every node of the tree is closed once
\* by the depth-first traversal from the root.
total_size_of_directories_up_to(t, max) ==
    SumSeq([k \in 1..Len(t) |->
              IF t[k].kind = "FsDirectory" /\ t[k].size < max THEN t[k].size ELSE 0])

InitDay7 ==
    /\ d7_pc = "fold"
    /\ cmds = <<>>
    /\ tree = <<new_dir("/", 0)>>
    /\ d7_node = 1
    /\ max_size = 0
    /\ d7_total = 0
    /\ IdleOthers("day7")

\* One command folded into the accumulator.
FoldCommand ==
    /\ d7_pc = "fold"
    /\ Len(cmds) < MaxCmds
    /\ \E c \in TreeBuildCommand :
         LET st == fold_command([tree |-> tree, node |-> d7_node], c)
         IN  /\ tree' = st.tree
             /\ d7_node' = st.node
             /\ cmds' = Append(cmds, c)
    /\ UNCHANGED <<d7_pc, max_size, d7_total>>
    /\ Others("day7")

\* The fold ends (at least one command was folded: fold_many1), the root is
\* taken (res.root()) and total_size_of_directories_up_to is applied to it.
TotalSize ==
    /\ d7_pc = "fold"
    /\ Len(cmds) >= 1
    /\ \E max \in 0..MaxSizeArg :
         /\ max_size' = max
         /\ d7_total' = total_size_of_directories_up_to(tree, max)
    /\ d7_pc' = "done"
    /\ UNCHANGED <<cmds, tree, d7_node>>
    /\ Others("day7")

NextDay7 ==
    \/ FoldCommand
    \/ TotalSize

SpecDay7 == InitDay7 /\ [][NextDay7]_vars

\* file_system alone: the fold and every accumulator it goes through.
SpecFileSystem == InitDay7 /\ [][FoldCommand]_vars

\* The file nodes below (or at) node k, by descent from the parent links.
RECURSIVE IsUnder(_, _, _)
IsUnder(t, k, anc) ==
    IF k = 0 THEN FALSE ELSE IF k = anc THEN TRUE ELSE IsUnder(t, t[k].parent, anc)

SubtreeFileSum(t, d) ==
    SumSeq([k \in 1..Len(t) |->
              IF t[k].kind = "FsFile" /\ IsUnder(t, k, d) THEN t[k].size ELSE 0])

CreatedFileSizes(cs) ==
    LET is_file(c) == c.cmd = "CreateFile"
        fs == SelectSeq(cs, is_file)
    IN  [k \in 1..Len(fs) |-> fs[k].size]

FileNodeSizes(t) ==
    LET is_file(nd) == nd.kind = "FsFile"
        fs == SelectSeq(t, is_file)
    IN  [k \in 1..Len(fs) |-> fs[k].size]

\* C6: after any sequence of commands has been folded, the size of every
\* directory node is the sum of the sizes of the file nodes of its subtree,
\* and every file node has the size it was created with.
C6_DirectorySizes ==
    d7_pc \in {"fold", "done"} =>
        /\ \A k \in 1..Len(tree) :
              tree[k].kind = "FsDirectory" => tree[k].size = SubtreeFileSum(tree, k)
        /\ FileNodeSizes(tree) = CreatedFileSizes(cmds)

\* C6 witness: files were created at two depths, under a directory entered
\* with cd and, after cd .., next to it.
C6_Witness ==
    /\ d7_pc = "fold"
    /\ \E d \in 2..Len(tree) :
          /\ tree[d].kind = "FsDirectory"
          /\ tree[d].size > 0
          /\ tree[1].size > tree[d].size
    /\ d7_node = 1

\* C7: total_size_of_directories_up_to returns the sum of the sizes of the
\* directory nodes whose size is at most max_size (a directory of size
\* exactly max_size included).
C7_TotalIncludesMaxSize ==
    d7_pc = "done" =>
        d7_total = SumSeq([k \in 1..Len(tree) |->
                             IF tree[k].kind = "FsDirectory" /\ tree[k].size <= max_size
                               THEN tree[k].size ELSE 0])

(***************************************************************************)
(* src/day6/mod.rs : find_marker                                           *)
(***************************************************************************)
MaxBufferLen == 6

MaxMarkerLen == 4

BufferChars == {"a", "b", "c", "d"}

\* slice::windows(marker_len) : the number of windows, and window i (0-based)
nb_windows(buf, len) == IF Len(buf) >= len THEN Len(buf) - len + 1 ELSE 0

window(buf, len, i) == SubSeq(buf, i + 1, i + len)

\* The closure of position() : as many distinct elements as elements
all_different(s) == Cardinality(Range(s)) = Len(s)

\* The index of the window itself, not of its last character.
marker_start(i, len) == i

\* .map(|i| i + marker_len)
marker_end(i, len) == i + len

InitDay6 ==
    /\ buffer \in SeqsUpTo(BufferChars, MaxBufferLen)
    /\ marker_len \in 1..MaxMarkerLen
    /\ d6_pc = "scan"
    /\ window_idx = 0
    /\ d6_result = <<>>
    /\ IdleOthers("day6")

\* position() looks at one window: it stops at the first that matches.
ScanWindow ==
    /\ d6_pc = "scan"
    /\ window_idx < nb_windows(buffer, marker_len)
    /\ IF all_different(window(buffer, marker_len, window_idx))
         THEN /\ d6_result' = [ok |-> TRUE, value |-> marker_end(window_idx, marker_len)]
              /\ d6_pc' = "done"
              /\ UNCHANGED window_idx
         ELSE /\ window_idx' = window_idx + 1
              /\ UNCHANGED <<d6_pc, d6_result>>
    /\ UNCHANGED <<buffer, marker_len>>
    /\ Others("day6")

\* No window is left: position() yields None, ok_or gives NotFoundError.
ScanExhausted ==
    /\ d6_pc = "scan"
    /\ window_idx >= nb_windows(buffer, marker_len)
    /\ d6_result' = [ok |-> FALSE, value |-> "NotFoundError"]
    /\ d6_pc' = "done"
    /\ UNCHANGED <<buffer, marker_len, window_idx>>
    /\ Others("day6")

NextDay6 ==
    \/ ScanWindow
    \/ ScanExhausted

SpecDay6 == InitDay6 /\ [][NextDay6]_vars

\* The marker_len characters ending at 1-based position k are pairwise distinct.
MarkerEndsAt(buf, len, k) ==
    /\ k >= len /\ k <= Len(buf)
    /\ \A p, q \in (k - len + 1)..k : p # q => buf[p] # buf[q]

\* C8: find_marker returns the smallest k such that the marker_len characters
\* ending at position k are pairwise distinct, and the NotFound error exactly
\* when there is no such k.
C8_FindMarkerFirstWindow ==
    d6_pc = "done" =>
        IF \E k \in 1..Len(buffer) : MarkerEndsAt(buffer, marker_len, k)
          THEN /\ d6_result.ok
               /\ MarkerEndsAt(buffer, marker_len, d6_result.value)
               /\ \A k \in 1..(d6_result.value - 1) : ~MarkerEndsAt(buffer, marker_len, k)
          ELSE d6_result.ok = FALSE

\* C8 witness: a marker of several characters found after windows that hold
\* a repeated character.
C8_Witness ==
    /\ d6_pc = "done"
    /\ marker_len >= 3
    /\ d6_result.ok
    /\ d6_result.value > marker_len + 1

C8_WitnessNotFound ==
    /\ d6_pc = "done"
    /\ d6_result.ok = FALSE
    /\ Len(buffer) > marker_len

(***************************************************************************)
(* src/day5/mod.rs : Stack, Move, rearrange                                *)
(*   A Stack is [id, crates] (crates bottom first); a Move is              *)
(*   [num, from, to].  Stack ids are characters, ordered as digits.        *)
(***************************************************************************)
MaxStackMoves == 2

MaxNum == 3

StackIds == <<"1", "2", "3">>

StackIdRank(id) == CHOOSE k \in 1..Len(StackIds) : StackIds[k] = id

InitialCrates == {<<>>, <<"A", "B">>, <<"C">>}

StackMoveSet == [num : 0..MaxNum, from : Range(StackIds), to : Range(StackIds)]

\* The Vec<Stack> arguments: two or three stacks with distinct ids, in any order.
StackVecs ==
    {v \in UNION {[1..k -> [id : Range(StackIds), crates : InitialCrates]] : k \in 2..3} :
        \A p, q \in 1..Len(v) : p # q => v[p].id # v[q].id}

\* rearrange, lines 80-83 : collect into a BTreeMap keyed by stack id
collect_stacks(v) ==
    [id \in {v[k].id : k \in 1..Len(v)} |->
        v[CHOOSE k \in 1..Len(v) : v[k].id = id /\ \A o \in (k + 1)..Len(v) : v[o].id # id].crates]

\* rearrange, lines 87-91 : pop() num times, each crate popped pushed on swap
RECURSIVE pop_crates(_, _, _)
pop_crates(crates, num, swap) ==
    IF num = 0 \/ crates = <<>> THEN [crates |-> crates, swap |-> swap]
    ELSE pop_crates(SubSeq(crates, 1, Len(crates) - 1), num - 1,
                    Append(swap, crates[Len(crates)]))

\* rearrange_part_2, line 117 : the crates are put back in their order
extend_rev(crates, swap) == crates \o Reverse(swap)

\* rearrange, line 95 : e.crates.extend(swap)
extend(crates, swap) == crates \o swap

\* rearrange, lines 85-96 : one move applied to the map
apply_move(st, m) ==
    LET popped == IF m.from \in DOMAIN st THEN pop_crates(st[m.from], m.num, <<>>)
                                            ELSE [crates |-> <<>>, swap |-> <<>>]
        st1 == IF m.from \in DOMAIN st THEN [st EXCEPT ![m.from] = popped.crates] ELSE st
    IN  IF m.to \in DOMAIN st1 THEN [st1 EXCEPT ![m.to] = extend(@, popped.swap)] ELSE st1

\* rearrange, line 98 : stacks.values().cloned().collect()
RECURSIVE values_in_key_order(_, _)
values_in_key_order(st, k) ==
    IF k > Len(StackIds) THEN <<>>
    ELSE (IF StackIds[k] \in DOMAIN st
            THEN <<[id |-> StackIds[k], crates |-> st[StackIds[k]]]>> ELSE <<>>)
         \o values_in_key_order(st, k + 1)

InitDay5 ==
    /\ stacks_arg \in StackVecs
    /\ d5_pc = "collect"
    /\ stacks = <<>>
    /\ nb_moves = 0
    /\ last_move = <<>>
    /\ d5_result = <<>>
    /\ IdleOthers("day5")

\* Lines 80-83.
CollectStacks ==
    /\ d5_pc = "collect"
    /\ stacks' = collect_stacks(stacks_arg)
    /\ d5_pc' = "moves"
    /\ UNCHANGED <<stacks_arg, nb_moves, last_move, d5_result>>
    /\ Others("day5")

\* One iteration of `for m in moves.iter()` (lines 84-97).
ApplyMove ==
    /\ d5_pc = "moves"
    /\ nb_moves < MaxStackMoves
    /\ \E m \in StackMoveSet :
         /\ stacks' = apply_move(stacks, m)
         /\ last_move' = m
    /\ nb_moves' = nb_moves + 1
    /\ UNCHANGED <<stacks_arg, d5_pc, d5_result>>
    /\ Others("day5")

\* Line 98.
RearrangeReturn ==
    /\ d5_pc = "moves"
    /\ d5_result' = values_in_key_order(stacks, 1)
    /\ d5_pc' = "done"
    /\ UNCHANGED <<stacks_arg, stacks, nb_moves, last_move>>
    /\ Others("day5")

NextDay5 ==
    \/ CollectStacks
    \/ ApplyMove
    \/ RearrangeReturn

SpecDay5 == InitDay5 /\ [][NextDay5]_vars

\* The top k crates of a stack, topmost first.
TopDown(crates, k) == [p \in 1..k |-> crates[Len(crates) - p + 1]]

\* What one move between two distinct present stacks does to the map.
MoveEffect(before, after, m) ==
    LET k == Min2(m.num, Len(before[m.from]))
    IN  /\ DOMAIN after = DOMAIN before
        /\ after[m.from] = SubSeq(before[m.from], 1, Len(before[m.from]) - k)
        /\ after[m.to] = before[m.to] \o TopDown(before[m.from], k)
        /\ \A id \in DOMAIN before \ {m.from, m.to} : after[id] = before[id]

\* C9: each move (num, from, to) with from # to and both stacks present pops
\* min(num, height of from) crates from from and pushes them one by one on
\* to (they end on top of to in reversed order), every other stack is left
\* unchanged, and the result lists the stacks in ascending stack-id order.
C9_RearrangeMoves ==
    [][/\ (d5_pc = "moves" /\ nb_moves' = nb_moves + 1
            /\ last_move'.from # last_move'.to
            /\ last_move'.from \in DOMAIN stacks /\ last_move'.to \in DOMAIN stacks)
          => MoveEffect(stacks, stacks', last_move')
       /\ (d5_pc = "moves" /\ d5_pc' = "done")
          => /\ {d5_result'[k].id : k \in 1..Len(d5_result')} = DOMAIN stacks
             /\ Len(d5_result') = Cardinality(DOMAIN stacks)
             /\ \A k \in 1..Len(d5_result') : d5_result'[k].crates = stacks[d5_result'[k].id]
             /\ \A p, q \in 1..Len(d5_result') :
                   p < q => StackIdRank(d5_result'[p].id) < StackIdRank(d5_result'[q].id)
      ]_vars

\* C9 witness: the result was returned after a move of two crates or more
\* between two distinct stacks, which left them reversed on top of the
\* target, for stacks given in descending id order.
C9_Witness ==
    /\ d5_pc = "done"
    /\ nb_moves >= 1
    /\ last_move.num >= 2
    /\ last_move.from # last_move.to
    /\ last_move.to \in DOMAIN stacks
    /\ Len(stacks[last_move.to]) >= 3
    /\ SubSeq(stacks[last_move.to], Len(stacks[last_move.to]) - 1, Len(stacks[last_move.to]))
         = <<"B", "A">>
    /\ StackIdRank(stacks_arg[1].id) > StackIdRank(stacks_arg[2].id)

(***************************************************************************)
(* src/day10/mod.rs : Cycle, compute_signal_strength                       *)
(*   A Cycle is [kind, val] with kind Noop, Loading or Execution; val is   *)
(*   the i32 of an Execution and 0 otherwise.  The values are small, so    *)
(*   the i32 arithmetic of the fold stays in range.                        *)
(***************************************************************************)
MaxCycles == 61

MaxNonNoop == 1

ExecValues == {-2, 3}

FIRST_SIGNAL_IDX == 20

Noop == [kind |-> "Noop", val |-> 0]

CycleSet ==
    {Noop, [kind |-> "Loading", val |-> 0]}
        \cup {[kind |-> "Execution", val |-> v] : v \in ExecValues}

NbNonNoop(cs) == Cardinality({p \in 1..Len(cs) : cs[p] # Noop})

\* Lines 58-61 : the register after the cycle.
register_after(x, v) ==
    IF v.kind = "Execution" THEN x + v.val ELSE x

\* Lines 62-64 : is the cycle of index i (from 0) one that is sampled?
is_signal_cycle(i) ==
    \/ i + 1 = FIRST_SIGNAL_IDX
    \/ i > FIRST_SIGNAL_IDX /\ (i + 1 - FIRST_SIGNAL_IDX) % 40 = 0

\* The register value of a sample taken after the cycle has completed.
sampled_after(x_before, x_after) == x_after

\* Line 66 : the sample multiplies current_x, the register before the cycle.
sampled(x_before, x_after) == x_before

\* Lines 57-69 : the closure of the fold, on accumulator acc and item (i, v).
fold_cycle(acc, i, v) ==
    LET x == register_after(acc.current_x, v)
    IN  IF is_signal_cycle(i)
          THEN [signal_strength |-> acc.signal_strength + sampled(acc.current_x, x) * (i + 1),
                current_x |-> x]
          ELSE [signal_strength |-> acc.signal_strength, current_x |-> x]

\* Line 57 : fold((0, 1), ...)
InitDay10 ==
    /\ cycles = <<>>
    /\ d10_pc = "fold"
    /\ signal_strength = 0
    /\ current_x = 1
    /\ d10_result = 0
    /\ IdleOthers("day10")

\* The iterator yields one more cycle and the closure runs on it.
FoldCycle ==
    /\ d10_pc = "fold"
    /\ Len(cycles) < MaxCycles
    /\ \E v \in CycleSet :
         /\ NbNonNoop(Append(cycles, v)) <= MaxNonNoop
         /\ LET acc == fold_cycle([signal_strength |-> signal_strength,
                                   current_x |-> current_x], Len(cycles), v)
            IN  /\ signal_strength' = acc.signal_strength
                /\ current_x' = acc.current_x
         /\ cycles' = Append(cycles, v)
    /\ UNCHANGED <<d10_pc, d10_result>>
    /\ Others("day10")

\* The iterator is exhausted: `.0` of the accumulator is returned (line 71).
SignalStrengthReturn ==
    /\ d10_pc = "fold"
    /\ d10_result' = signal_strength
    /\ d10_pc' = "done"
    /\ UNCHANGED <<cycles, signal_strength, current_x>>
    /\ Others("day10")

NextDay10 ==
    \/ FoldCycle
    \/ SignalStrengthReturn

SpecDay10 == InitDay10 /\ [][NextDay10]_vars

\* Reference: register X during cycle c (cycles numbered from 1) is 1 plus
\* the values of the Execution cycles completed before c.
RECURSIVE RefExecSum(_, _)
RefExecSum(cs, last) ==
    IF last = 0 THEN 0
    ELSE RefExecSum(cs, last - 1) + (IF cs[last].kind = "Execution" THEN cs[last].val ELSE 0)

RefXDuring(cs, c) == 1 + RefExecSum(cs, c - 1)

RefSamples(len) == {c \in {20 + 40 * k : k \in 0..(len \div 40)} : c <= len}

RECURSIVE RefSum(_, _)
RefSum(cs, S) ==
    IF S = {} THEN 0
    ELSE LET c == CHOOSE c \in S : TRUE
         IN  c * RefXDuring(cs, c) + RefSum(cs, S \ {c})

RefSignalStrength(cs) == RefSum(cs, RefSamples(Len(cs)))

\* C10: compute_signal_strength returns the sum over the cycle numbers
\* c = 20 + 40k, c <= number of cycles, of c times the value of X during
\* cycle c, X starting at 1 and an Execution's value being added only after
\* its cycle (the accumulator after each cycle is that sum for the cycles
\* consumed so far, and the result is the accumulator's sum).
C10_SignalStrengthIsSampledSum ==
    /\ d10_pc \in {"fold", "done"} => signal_strength = RefSignalStrength(cycles)
    /\ d10_pc = "done" => d10_result = RefSignalStrength(cycles)

\* C10 witness: a result over 60 cycles or more, with an Execution in cycle 20
\* that the first sample does not see yet and the second sample sees.
C10_Witness ==
    /\ d10_pc = "done"
    /\ Len(cycles) >= 60
    /\ cycles[20] = [kind |-> "Execution", val |-> 3]
    /\ d10_result = 20 * 1 + 60 * 4

\* C10 witness: an Execution in cycle 60 itself does not count in the sample
\* of cycle 60.
C10_WitnessSecondSample ==
    /\ d10_pc = "done"
    /\ Len(cycles) = 61
    /\ cycles[60] = [kind |-> "Execution", val |-> 3]
    /\ d10_result = 80

(***************************************************************************)
(* The nom combinators the parsers of days 5, 7, 9 and 10 are built from.  *)
(*   A parser maps a parse state to a parse state: ok is FALSE after an    *)
(*   Err::Error, rest is the input left and vals the values produced so    *)
(*   far.  A parser applied to a failed state fails, so that a sequence of *)
(*   parsers (tuple, delimited, terminated, `?`) is their composition.     *)
(***************************************************************************)
ParseErr == [ok |-> FALSE, rest |-> "", vals |-> <<>>]

start(i) == [ok |-> TRUE, rest |-> i, vals |-> <<>>]

Take(i, k) == SubSeq(i, 1, Min2(k, Len(i)))

Drop(i, k) == SubSeq(i, k + 1, Len(i))

Last(s) == s[Len(s)]

Digits == <<"0", "1", "2", "3", "4", "5", "6", "7", "8", "9">>

Uppercase == <<"A", "B", "C", "D", "E", "F", "G", "H", "I", "J", "K", "L", "M",
               "N", "O", "P", "Q", "R", "S", "T", "U", "V", "W", "X", "Y", "Z">>

Alphanumeric == Range(Lowercase) \cup Range(Uppercase) \cup Range(Digits)

Whitespace == {" ", "\t", "\n", "\r"}

\* The number of leading characters of i that are in the set S.
RECURSIVE PrefixLen(_, _)
PrefixLen(i, S) ==
    IF i = "" \/ Take(i, 1) \notin S THEN 0 ELSE 1 + PrefixLen(Drop(i, 1), S)

\* The value of a string of decimal digits.
RECURSIVE DecimalValue(_)
DecimalValue(ds) ==
    IF ds = "" THEN 0
    ELSE 10 * DecimalValue(Take(ds, Len(ds) - 1))
         + (CHOOSE k \in 0..9 : Digits[k + 1] = Drop(ds, Len(ds) - 1))

\* len characters are consumed, and produce the value v.
push(s, len, v) == [ok |-> TRUE, rest |-> Drop(s.rest, len), vals |-> Append(s.vals, v)]

\* The last value produced becomes v.
replace_last(s, v) == [s EXCEPT !.vals = Append(SubSeq(@, 1, Len(@) - 1), v)]

\* alt((a, b)) : a and b are the results of the two parsers on the same state
alt(a, b) == IF a.ok THEN a ELSE b

\* tag and char, which produce a value nobody uses
tag(t, s) ==
    IF s.ok /\ Take(s.rest, Len(t)) = t THEN [s EXCEPT !.rest = Drop(@, Len(t))] ELSE ParseErr

\* tag, when its value is used
tag_value(t, s) ==
    IF s.ok /\ Take(s.rest, Len(t)) = t THEN push(s, Len(t), t) ELSE ParseErr

line_ending(s) == alt(tag("\n", s), tag("\r\n", s))

eof(s) == IF s.ok /\ s.rest = "" THEN s ELSE ParseErr

\* alt((line_ending, eof))
line_ending_or_eof(s) == alt(line_ending(s), eof(s))

\* The first len characters, when there is one at least.
take1(s, len) == IF s.ok /\ len > 0 THEN push(s, len, Take(s.rest, len)) ELSE ParseErr

\* One or more characters of the set S (digit1, alphanumeric1, space1).
take_while1(s, S) == take1(s, PrefixLen(s.rest, S))

digit1(s) == take_while1(s, Range(Digits))

alphanumeric1(s) == take_while1(s, Alphanumeric)

\* The last value produced is dropped: nobody uses it.
forget(s) == IF s.ok THEN [s EXCEPT !.vals = SubSeq(@, 1, Len(@) - 1)] ELSE ParseErr

space1(s) == forget(take_while1(s, {" ", "\t"}))

\* The digits produced last become a number of at most max, or an Error when
\* they exceed it.  Numbers of 10 digits or more, which no input here has,
\* are out of range.
to_number(s, max) ==
    IF s.ok /\ Len(Last(s.vals)) <= 9 /\ DecimalValue(Last(s.vals)) <= max
      THEN replace_last(s, DecimalValue(Last(s.vals))) ELSE ParseErr

\* An unsigned integer: character::complete::u8, and str::parse::<usize> or
\* u16::from_str_radix on the digits of digit1.
unsigned(s, max) == to_number(digit1(s), max)

negated(s) == IF s.ok THEN replace_last(s, 0 - Last(s.vals)) ELSE ParseErr

\* character::complete::i32 : an optional sign, then digits
i32(s) ==
    alt(negated(unsigned(tag("-", s), 2147483647)),
        unsigned(alt(tag("+", s), s), 2147483647))

\* map(parser, closure) : a successful parse produces the single value v.
mapped(s, v) == IF s.ok THEN [ok |-> TRUE, rest |-> s.rest, vals |-> <<v>>] ELSE ParseErr

(***************************************************************************)
(* src/day9/mod.rs : move_statement, moves, move_rope as one function      *)
(***************************************************************************)
\* Line 132 : alt((char('R'), char('U'), char('D'), char('L')))
direction(s) ==
    IF s.ok /\ Take(s.rest, 1) \in {"R", "U", "D", "L"}
      THEN push(s, 1, Take(s.rest, 1)) ELSE ParseErr

\* Lines 136-142 : the closure of map
as_head_move(s) == mapped(s, [dir |-> s.vals[1], d |-> s.vals[2]])

\* Lines 130-143.
move_statement(s) == as_head_move(unsigned(tag(" ", direction(s)), 255))

\* Line 150 : terminated(move_statement, alt((line_ending, eof)))
move_line(s) == line_ending_or_eof(move_statement(s))

\* move_rope, lines 157-186 : the whole loop, on the rope r and the visits.
RECURSIVE move_rope_loop(_, _, _)
move_rope_loop(mvs, r, visits) ==
    IF mvs = <<>> THEN Cardinality(visits)
    ELSE move_rope_loop(Tail(mvs),
            follow([r EXCEPT ![HEAD_INDEX + 1] = move_to(@, Head(mvs))], visits, 1).rope,
            follow([r EXCEPT ![HEAD_INDEX + 1] = move_to(@, Head(mvs))], visits, 1).visits)

move_rope(mvs) == move_rope_loop(mvs, [k \in 1..ROPE_SIZE |-> <<0, 0>>], {<<0, 0>>})

(***************************************************************************)
(* src/day10/mod.rs : noop_instruction, addx_instruction, cycles,          *)
(*                    compute_signal_strength as one function              *)
(***************************************************************************)
\* Lines 22-29.
noop_instruction(s) == mapped(line_ending_or_eof(tag("noop", s)), <<Noop>>)

\* Lines 36-38 : the closure of map
as_addx(s) ==
    mapped(s, <<[kind |-> "Loading", val |-> 0], [kind |-> "Execution", val |-> s.vals[1]]>>)

\* Lines 31-39.
addx_instruction(s) == as_addx(line_ending_or_eof(i32(tag("addx ", s))))

\* Line 45 : alt((noop_instruction, addx_instruction))
instruction(s) == alt(noop_instruction(s), addx_instruction(s))

\* Lines 45-47 : v.into_iter().flatten().collect()
RECURSIVE flatten(_)
flatten(vs) == IF vs = <<>> THEN <<>> ELSE Head(vs) \o flatten(Tail(vs))

\* compute_signal_strength, lines 53-71 : the fold over all the cycles.
RECURSIVE fold_cycles(_, _, _)
fold_cycles(cs, k, acc) ==
    IF k > Len(cs) THEN acc
    ELSE fold_cycles(cs, k + 1, fold_cycle(acc, k - 1, cs[k]))

compute_signal_strength(cs) ==
    fold_cycles(cs, 1, [signal_strength |-> 0, current_x |-> 1]).signal_strength

(***************************************************************************)
(* src/day7/mod.rs : the statement parsers, file_system and                *)
(*                   smallest_directory_to_delete_size                     *)
(***************************************************************************)
\* recognize(parser) : the text the parser consumed from s to reach r
recognize(s, r) ==
    IF r.ok THEN push(s, Len(s.rest) - Len(r.rest), Take(s.rest, Len(s.rest) - Len(r.rest)))
    ELSE ParseErr

\* Lines 89-97.
file_name(s) ==
    alt(recognize(s, alphanumeric1(tag(".", alphanumeric1(s)))), alphanumeric1(s))

\* Lines 99-104.
size(s) == unsigned(s, 999999999)

\* Line 114.
as_create_file(s) ==
    mapped(s, [cmd |-> "CreateFile", name |-> s.vals[2], size |-> s.vals[1]])

\* Lines 106-115.
file_statement(s) == as_create_file(line_ending_or_eof(file_name(space1(size(s)))))

\* Lines 117-122.
dir_name(s) == alt(alphanumeric1(s), tag_value("/", s))

\* Line 130.
as_create_dir(s) == mapped(s, [cmd |-> "CreateDir", name |-> s.vals[1]])

\* Lines 124-132.
dir_statement(s) == as_create_dir(line_ending_or_eof(dir_name(tag("dir ", s))))

\* Lines 134-141.
ls_statement(s) == mapped(line_ending_or_eof(tag("$ ls", s)), [cmd |-> "DoNothing"])

\* Lines 153-159.
as_move_command(s) ==
    mapped(s, IF s.vals[1] = ".." THEN [cmd |-> "MoveToParent"]
                                  ELSE [cmd |-> "MoveTo", name |-> s.vals[1]])

\* Line 150 : alt((dir_name, tag("..")))
dir_name_or_parent(s) == alt(dir_name(s), tag_value("..", s))

\* Lines 143-161.
cd_statement(s) == as_move_command(line_ending_or_eof(dir_name_or_parent(tag("$ cd ", s))))

\* Line 169 : alt((file_statement, dir_statement, ls_statement, cd_statement))
fs_statement(s) ==
    alt(file_statement(s), alt(dir_statement(s), alt(ls_statement(s), cd_statement(s))))

\* Lines 168-192 : the commands folded from a tree of the root alone.
RECURSIVE fold_commands(_, _)
fold_commands(st, cs) ==
    IF cs = <<>> THEN st ELSE fold_commands(fold_command(st, Head(cs)), Tail(cs))

file_system_of(cs) == fold_commands([tree |-> <<new_dir("/", 0)>>, node |-> 1], cs).tree

\* The least element of a set of sizes, or 0 (min().unwrap_or(0)).
min_or_0(sizes) == IF sizes = {} THEN 0 ELSE CHOOSE sz \in sizes : \A o \in sizes : sz <= o

\* Lines 211-226.
smallest_directory_to_delete_size(t, min_size) ==
    min_or_0({t[k].size : k \in {o \in 1..Len(t) :
                                    t[o].kind = "FsDirectory" /\ t[o].size >= min_size}})

(***************************************************************************)
(* src/day5/mod.rs : the parsers, create_stacks, rearrange_part_2 and code *)
(*   An Option<Crate> is the crate's letter, or "" for None.               *)
(***************************************************************************)
\* The values a parser produces from the state s on, as one value (a Vec).
fresh(s) == IF s.ok THEN start(s.rest) ELSE ParseErr

grouped(s, r) == IF r.ok THEN [ok |-> TRUE, rest |-> r.rest, vals |-> Append(s.vals, r.vals)]
                         ELSE ParseErr

\* Lines 157-159 : the first character of the digits
first_digit(s) == IF s.ok THEN replace_last(s, Take(Last(s.vals), 1)) ELSE ParseErr

\* Lines 152-160.
parse_stack_id(s) == first_digit(digit1(s))

\* Lines 167-170 : delimited(char('['), satisfy(is_ascii_uppercase), char(']'))
some_crate(s) ==
    IF s.ok /\ Take(s.rest, 1) = "[" /\ SubSeq(s.rest, 2, Min2(2, Len(s.rest))) \in Range(Uppercase)
            /\ SubSeq(s.rest, 3, Min2(3, Len(s.rest))) = "]"
      THEN push(s, 3, SubSeq(s.rest, 2, 2)) ELSE ParseErr

\* Lines 171-173 : take_while_m_n(3, 3, char::is_whitespace)
no_crate(s) ==
    IF s.ok /\ PrefixLen(Take(s.rest, 3), Whitespace) = 3 THEN push(s, 3, "") ELSE ParseErr

\* Lines 162-176.
parse_crate(s) == alt(some_crate(s), no_crate(s))

\* separated_list1(char(' '), parse_crate), after the first crate
RECURSIVE more_crates(_)
more_crates(s) ==
    IF parse_crate(tag(" ", s)).ok THEN more_crates(parse_crate(tag(" ", s))) ELSE s

\* Lines 178-190 : parse_stack_def_line, terminated by line_ending
parse_stack_def_line_nl(s) == grouped(s, line_ending(more_crates(parse_crate(fresh(s)))))

\* Line 196 : delimited(char(' '), parse_stack_id, char(' '))
padded_stack_id(s) == tag(" ", parse_stack_id(tag(" ", s)))

RECURSIVE more_stack_ids(_)
more_stack_ids(s) ==
    IF padded_stack_id(tag(" ", s)).ok THEN more_stack_ids(padded_stack_id(tag(" ", s))) ELSE s

\* Lines 192-204 : parse_stack_id_line, terminated by line_ending
parse_stack_id_line_nl(s) ==
    grouped(s, line_ending(more_stack_ids(padded_stack_id(fresh(s)))))

\* many1(parse_stack_def_line_nl), after the first line
RECURSIVE more_stack_def_lines(_)
more_stack_def_lines(s) ==
    IF parse_stack_def_line_nl(s).ok THEN more_stack_def_lines(parse_stack_def_line_nl(s))
    ELSE s

\* Line 257 : StacksSpecification::new(stack_def_lines, stack_ids)
as_specification(s) == mapped(s, [slot_lines |-> s.vals[1], stack_ids |-> s.vals[2]])

\* Lines 251-258.
parse_stacks_specifications(s) ==
    as_specification(parse_stack_id_line_nl(
        grouped(s, more_stack_def_lines(parse_stack_def_line_nl(fresh(s))))))

\* Lines 219-222 : the closure of map_res
as_stack_move(s) == mapped(s, [num |-> s.vals[1], from |-> s.vals[2], to |-> s.vals[3]])

\* Lines 204-224.
parse_move(s) ==
    as_stack_move(parse_stack_id(tag(" to ",
        parse_stack_id(tag(" from ", unsigned(tag("move ", s), 65535))))))

\* Lines 226-233.
parse_move_nl(s) == line_ending(parse_move(s))

\* The crates of column k of the slot lines, those that are not None.
column(lines, k) ==
    flatten([l \in 1..Len(lines) |-> IF lines[l][k] = "" THEN <<>> ELSE <<lines[l][k]>>])

\* create_stacks, were the slot lines read from the first one down
create_stacks_top_down(stacks_specs) ==
    IF \E l \in 1..Len(stacks_specs.slot_lines) :
          Len(stacks_specs.slot_lines[l]) < Len(stacks_specs.stack_ids)
      THEN [panic |-> TRUE, stacks |-> <<>>]
      ELSE [panic |-> FALSE,
            stacks |-> [k \in 1..Len(stacks_specs.stack_ids) |->
                          [id |-> stacks_specs.stack_ids[k],
                           crates |-> column(stacks_specs.slot_lines, k)]]]

\* Lines 260-279 : l[i] panics on a slot line shorter than the id line.
create_stacks(stacks_specs) ==
    IF \E l \in 1..Len(stacks_specs.slot_lines) :
          Len(stacks_specs.slot_lines[l]) < Len(stacks_specs.stack_ids)
      THEN [panic |-> TRUE, stacks |-> <<>>]
      ELSE [panic |-> FALSE,
            stacks |-> [k \in 1..Len(stacks_specs.stack_ids) |->
                          [id |-> stacks_specs.stack_ids[k],
                           crates |-> column(Reverse(stacks_specs.slot_lines), k)]]]

\* rearrange_part_2, lines 107-118 : one move applied to the map
apply_move_part_2(st, m) ==
    LET popped == IF m.from \in DOMAIN st THEN pop_crates(st[m.from], m.num, <<>>)
                                            ELSE [crates |-> <<>>, swap |-> <<>>]
        st1 == IF m.from \in DOMAIN st THEN [st EXCEPT ![m.from] = popped.crates] ELSE st
    IN  IF m.to \in DOMAIN st1 THEN [st1 EXCEPT ![m.to] = @ \o Reverse(popped.swap)] ELSE st1

RECURSIVE apply_moves_part_2(_, _)
apply_moves_part_2(st, ms) ==
    IF ms = <<>> THEN st ELSE apply_moves_part_2(apply_move_part_2(st, Head(ms)), Tail(ms))

\* Lines 101-121.
rearrange_part_2(v, ms) == values_in_key_order(apply_moves_part_2(collect_stacks(v), ms), 1)

\* Lines 281-286.
RECURSIVE code(_)
code(v) ==
    IF v = <<>> THEN ""
    ELSE (IF Head(v).crates = <<>> THEN " " ELSE Last(Head(v).crates)) \o code(Tail(v))

(***************************************************************************)
(* The four functions on inputs made of lines: top_crate_of_stacks,        *)
(* total_size_of_small_directories_and_smallest_to_delete,                 *)
(* nb_tail_positions and sum_of_signal_strengths, after read_to_string.    *)
(***************************************************************************)
MaxLines == 3

ParserDays == {5, 7, 9, 10}

WellFormedLines(day) ==
    CASE day = 5 -> {"move 1 from 1 to 2", "move 2 from 2 to 1"}
      [] day = 7 -> {"$ ls", "dir a", "$ cd a", "2 b.c", "40000000 c"}
      [] day = 9 -> {"R 4", "U 2"}
      [] day = 10 -> {"noop", "addx 3", "addx -2"}

MalformedLines(day) ==
    CASE day = 5 -> {"move x"}
      [] day = 7 -> {"$ rm a"}
      [] day = 9 -> {"xx", "R 300"}
      [] day = 10 -> {"add 3"}

\* The drawing of the stacks, the line of their ids and the empty line that
\* come before the moves of day 5; the second lacks the empty line.
StackTexts == {"    [C]\n[A] [B]\n 1   2 \n\n", "[A] [B]\n 1   2 \n"}

\* The lines joined by line feeds, the last one ended by a line feed or not.
RECURSIVE Text(_, _)
Text(ls, last_nl) ==
    IF ls = <<>> THEN ""
    ELSE IF Len(ls) = 1 THEN Head(ls) \o (IF last_nl THEN "\n" ELSE "")
    ELSE Head(ls) \o "\n" \o Text(Tail(ls), last_nl)

\* The parser many1 / fold_many1 repeats, for each day.
statement(day, i) ==
    CASE day = 5 -> parse_move_nl(start(i))
      [] day = 7 -> fs_statement(start(i))
      [] day = 9 -> move_line(start(i))
      [] day = 10 -> instruction(start(i))

Failure == [kind |-> "Err"]

Answer(val) == [kind |-> "Ok", val |-> val]

Panic == [kind |-> "panic"]

InitParsers ==
    /\ p_day \in ParserDays
    /\ p_lines \in SeqsUpTo(WellFormedLines(p_day) \cup MalformedLines(p_day), MaxLines)
    /\ \E last_nl \in BOOLEAN, before \in (IF p_day = 5 THEN StackTexts ELSE {""}) :
         p_input = before \o Text(p_lines, last_nl)
    /\ p_rest = p_input
    /\ p_specs = <<>>
    /\ p_parsed = <<>>
    /\ p_pc = IF p_day = 5 THEN "stacks" ELSE "many1"
    /\ p_result = <<>>
    /\ IdleOthers("parsers")

\* day5, lines 290-291 : the `?` returns the error of either parser.
StacksParsed(s) ==
    IF s.ok
      THEN /\ p_specs' = s.vals[1]
           /\ p_rest' = s.rest
           /\ p_pc' = "many1"
           /\ UNCHANGED p_result
      ELSE /\ p_result' = Failure
           /\ p_pc' = "done"
           /\ UNCHANGED <<p_specs, p_rest>>

ParseStacks ==
    /\ p_pc = "stacks"
    /\ StacksParsed(line_ending(parse_stacks_specifications(start(p_rest))))
    /\ UNCHANGED <<p_day, p_lines, p_input, p_parsed>>
    /\ Others("parsers")

\* many1 / fold_many1 : the statement parser succeeds, its value is kept.
StatementParsed(s) ==
    /\ s.ok
    /\ p_parsed' = Append(p_parsed, s.vals[1])
    /\ p_rest' = s.rest

ParseStatement ==
    /\ p_pc = "many1"
    /\ StatementParsed(statement(p_day, p_rest))
    /\ UNCHANGED <<p_day, p_lines, p_input, p_specs, p_pc, p_result>>
    /\ Others("parsers")

\* many1 / fold_many1 : the statement parser gives an Error.  Without a
\* value so far that is the Error of many1, which the `?` of the function
\* returns; otherwise many1 is Ok with the values and the rest of the input.
ParseStop ==
    /\ p_pc = "many1"
    /\ ~statement(p_day, p_rest).ok
    /\ IF p_parsed = <<>>
         THEN p_result' = Failure /\ p_pc' = "done"
         ELSE p_pc' = "answer" /\ UNCHANGED p_result
    /\ UNCHANGED <<p_day, p_lines, p_input, p_rest, p_specs, p_parsed>>
    /\ Others("parsers")

\* day5, lines 294-298 : the rest of the input is not looked at.
Day5Answer ==
    /\ p_pc = "answer" /\ p_day = 5
    /\ p_result' = IF create_stacks(p_specs).panic THEN Panic
                    ELSE Answer(code(rearrange_part_2(create_stacks(p_specs).stacks, p_parsed)))
    /\ p_pc' = "done"
    /\ UNCHANGED <<p_day, p_lines, p_input, p_rest, p_specs, p_parsed>>
    /\ Others("parsers")

\* day7, lines 233-237, on the file system fs.
sizes_of(fs) ==
    <<total_size_of_directories_up_to(fs, 100000),
      IF fs[1].size >= 70000000 - 30000000
        THEN smallest_directory_to_delete_size(fs, fs[1].size - (70000000 - 30000000))
        ELSE 0>>

\* day7, lines 233-237, when fs_size - 40_000_000 does not overflow, or wraps
\* (no overflow checks): the wrapped space_to_clear is more than the size of
\* any directory and the smallest directory to delete is unwrap_or(0).
Day7Answer ==
    /\ p_pc = "answer" /\ p_day = 7
    /\ p_result' = Answer(sizes_of(file_system_of(p_parsed)))
    /\ p_pc' = "done"
    /\ UNCHANGED <<p_day, p_lines, p_input, p_rest, p_specs, p_parsed>>
    /\ Others("parsers")

\* day7, line 235, with overflow checks : the subtraction panics.
Day7Overflow ==
    /\ p_pc = "answer" /\ p_day = 7
    /\ file_system_of(p_parsed)[1].size < 70000000 - 30000000
    /\ p_result' = Panic
    /\ p_pc' = "done"
    /\ UNCHANGED <<p_day, p_lines, p_input, p_rest, p_specs, p_parsed>>
    /\ Others("parsers")

\* day9, line 192.
Day9Answer ==
    /\ p_pc = "answer" /\ p_day = 9
    /\ p_result' = Answer(move_rope(p_parsed))
    /\ p_pc' = "done"
    /\ UNCHANGED <<p_day, p_lines, p_input, p_rest, p_specs, p_parsed>>
    /\ Others("parsers")

\* day10, lines 102-104 (crt_display only prints).
Day10Answer ==
    /\ p_pc = "answer" /\ p_day = 10
    /\ p_result' = Answer(compute_signal_strength(flatten(p_parsed)))
    /\ p_pc' = "done"
    /\ UNCHANGED <<p_day, p_lines, p_input, p_rest, p_specs, p_parsed>>
    /\ Others("parsers")

NextParsers ==
    \/ ParseStacks
    \/ ParseStatement
    \/ ParseStop
    \/ Day5Answer
    \/ Day7Answer
    \/ Day7Overflow
    \/ Day9Answer
    \/ Day10Answer

SpecParsers == InitParsers /\ [][NextParsers]_vars

\* The input has a malformed line after at least one well-formed line.
MalformedAfterWellFormed ==
    \E k \in 2..Len(p_lines) :
        /\ p_lines[k] \in MalformedLines(p_day)
        /\ \A j \in 1..(k - 1) : p_lines[j] \in WellFormedLines(p_day)

\* The last line lacks the line ending the parser of day 5 requires.
LastLineLacksLineEnding ==
    /\ p_day = 5
    /\ Len(p_lines) >= 2
    /\ \A j \in 1..Len(p_lines) : p_lines[j] \in WellFormedLines(p_day)
    /\ Drop(p_input, Len(p_input) - 1) # "\n"

\* C2: for days 5, 7, 9 and 10, an input with a malformed line after at
\* least one well-formed line, or with a last line lacking a required line
\* ending, makes the function return a failure, never an answer computed
\* from the well-formed prefix.
C2_MalformedInputFails ==
    (p_pc = "done" /\ (MalformedAfterWellFormed \/ LastLineLacksLineEnding))
        => p_result = Failure


(***************************************************************************)
(* src/day8/mod.rs : find_best_spot                                        *)
(*                                                                         *)
(* data holds the heights row after row; the code indexes it from 0, the   *)
(* sequence d8_data from 1, so data[ix] of the code is data[ix + 1] here.  *)
(***************************************************************************)
MaxRows == 4

MaxCols == 4

TreeHeights == {1, 2}

Grids(nb_rows, nb_columns) == [1..(nb_rows * nb_columns) -> TreeHeights]

\* (from..to).step_by(step) : from, from + step, ... while below to
RECURSIVE step_by(_, _, _)
step_by(from, to, step) ==
    IF from >= to THEN <<>> ELSE <<from>> \o step_by(from + step, to, step)

to_north(i, nb_columns) == Reverse(step_by(i % nb_columns, i, nb_columns))

to_south(i, nb_rows, nb_columns) ==
    step_by(i + nb_columns, (nb_rows * nb_columns) + (i % nb_columns), nb_columns)

to_west(i, nb_columns) == Reverse(step_by(i - (i % nb_columns), i, 1))

to_east(i, nb_columns) == step_by(i + 1, i - (i % nb_columns) + nb_columns, 1)

\* the comparison the fold keeps counting on, were it data[ix] <= *c
lower_or_equal(height, c) == height <= c

\* data[ix] < *c
lower(height, c) == height < c

\* the closure folded over each range : |(count, counting), ix| ...
count_tree(data, c, acc, ix) ==
    IF acc.counting
    THEN [count |-> acc.count + 1, counting |-> lower(data[ix + 1], c)]
    ELSE [count |-> acc.count, counting |-> FALSE]

\* range.fold((0, true), closure)
RECURSIVE fold_range(_, _, _, _)
fold_range(data, c, acc, range) ==
    IF range = <<>> THEN acc
    ELSE fold_range(data, c, count_tree(data, c, acc, Head(range)), Tail(range))

\* .fold((0, true), ...).0
score(data, c, range) ==
    fold_range(data, c, [count |-> 0, counting |-> TRUE], range).count

\* the value mapped from (i, c) : north_score * south_score * west_score * east_score
tree_score(data, nb_rows, nb_columns, i) ==
    score(data, data[i + 1], to_north(i, nb_columns))
    * score(data, data[i + 1], to_south(i, nb_rows, nb_columns))
    * score(data, data[i + 1], to_west(i, nb_columns))
    * score(data, data[i + 1], to_east(i, nb_columns))

\* .max().unwrap_or(0)
max_or_0(S) == IF S = {} THEN 0 ELSE CHOOSE m \in S : \A v \in S : v <= m

find_best_spot(data, nb_rows, nb_columns) ==
    max_or_0({tree_score(data, nb_rows, nb_columns, i) : i \in 0..(Len(data) - 1)})

InitDay8 ==
    /\ map_size \in (0..MaxRows) \X (0..MaxCols)
    /\ d8_data \in Grids(map_size[1], map_size[2])
    /\ d8_pc = "call"
    /\ d8_result = 0
    /\ IdleOthers("day8")

FindBestSpot ==
    /\ d8_pc = "call"
    /\ d8_result' = find_best_spot(d8_data, map_size[1], map_size[2])
    /\ d8_pc' = "done"
    /\ UNCHANGED <<d8_data, map_size>>
    /\ Others("day8")

NextDay8 == FindBestSpot

SpecDay8 == InitDay8 /\ [][NextDay8]_vars

\* The height of the tree at row r, column k (both from 0) of the grid.
HeightAt(r, k) == d8_data[r * map_size[2] + k + 1]

\* The steps n >= 1 from (r, k) in direction (dr, dk) that stay on the grid.
StepsToEdge(r, k, dr, dk) ==
    {n \in 1..(MaxRows + MaxCols + 2) :
        /\ r + n * dr \in 0..(map_size[1] - 1)
        /\ k + n * dk \in 0..(map_size[2] - 1)}

\* Those steps that land on a tree at least as high as the tree at (r, k).
Blockers(r, k, dr, dk) ==
    {n \in StepsToEdge(r, k, dr, dk) : HeightAt(r + n * dr, k + n * dk) >= HeightAt(r, k)}

\* Trees met walking to the edge, the first blocker being the last one met.
FirstOrAll(blockers, steps) ==
    IF blockers = {} THEN Cardinality(steps)
    ELSE CHOOSE n \in blockers : \A b \in blockers : n <= b

ViewingDistance(r, k, dr, dk) ==
    FirstOrAll(Blockers(r, k, dr, dk), StepsToEdge(r, k, dr, dk))

ScenicScore(r, k) ==
    ViewingDistance(r, k, -1, 0) * ViewingDistance(r, k, 1, 0)
    * ViewingDistance(r, k, 0, -1) * ViewingDistance(r, k, 0, 1)

Largest(S) == CHOOSE m \in S : \A v \in S : v <= m

ScenicScores ==
    {ScenicScore(r, k) : r \in 0..(map_size[1] - 1), k \in 0..(map_size[2] - 1)}

\* C11: for a grid given row after row with its true (rows, columns),
\* find_best_spot returns the largest, over all trees, product of the four
\* viewing distances, a viewing distance being the number of trees met up to
\* the edge or up to and including the first tree at least as high; every
\* score is at least the returned 0 of an empty grid.
C11_FindBestSpotIsBestScenicScore ==
    d8_pc = "done" => d8_result = Largest(ScenicScores \cup {0})

\* A 4 x 4 grid whose best tree sees two trees to the south and to the east,
\* while the view to the west of its eastern neighbour stops at it, one tree
\* before the edge.
C11_Witness ==
    /\ d8_pc = "done"
    /\ map_size = <<4, 4>>
    /\ d8_result = 4
    /\ ScenicScore(1, 1) = 4
    /\ ViewingDistance(1, 1, 1, 0) = 2
    /\ ViewingDistance(1, 1, 0, 1) = 2
    /\ ViewingDistance(1, 2, 0, -1) = 1

\* An empty grid, for which 0 is returned.
C11_WitnessEmpty ==
    /\ d8_pc = "done"
    /\ d8_data = <<>>
    /\ d8_result = 0


(***************************************************************************)
(* src/day9/mod.rs : Position::move_next_to, called on its own             *)
(***************************************************************************)
MaxCoord == 4

Coords == (-MaxCoord)..MaxCoord

InitPosition ==
    /\ pos_self \in Coords \X Coords
    /\ pos_target \in Coords \X Coords
    /\ pos_before = pos_self
    /\ pos_tracker = <<>>
    /\ pos_pc = "call"
    /\ IdleOthers("position")

MoveNextTo ==
    /\ pos_pc = "call"
    /\ pos_self' = move_next_to(pos_self, pos_target).pos
    /\ pos_tracker' = move_next_to(pos_self, pos_target).tracker
    /\ pos_pc' = "done"
    /\ UNCHANGED <<pos_target, pos_before>>
    /\ Others("position")

NextPosition == MoveNextTo

SpecPosition == InitPosition /\ [][NextPosition]_vars

Max2(a, b) == IF a >= b THEN a ELSE b

ChebyshevDistance(p, q) == Max2(Abs(p[1] - q[1]), Abs(p[2] - q[2]))

Adjacent(p, q) == Abs(p[1] - q[1]) <= 1 /\ Abs(p[2] - q[2]) <= 1

\* One step from p toward q on every axis where p and q differ.
StepToward(p, q) == <<p[1] + Sign(q[1] - p[1]), p[2] + Sign(q[2] - p[2])>>

\* The position before the n-th tracked one.
TrackedBefore(n) == IF n = 1 THEN pos_before ELSE pos_tracker[n - 1]

\* C12: after move_next_to, self is adjacent to the target; a self that was
\* already adjacent is unchanged and the tracker is empty; otherwise every
\* tracked position is its predecessor moved one step toward the target on
\* every axis where they differ, the last tracked position is the final self,
\* and there are (initial Chebyshev distance - 1) tracked positions.
C12_MoveNextToTracksEachStep ==
    pos_pc = "done" =>
        /\ Adjacent(pos_self, pos_target)
        /\ IF Adjacent(pos_before, pos_target)
           THEN pos_self = pos_before /\ pos_tracker = <<>>
           ELSE /\ \A n \in 1..Len(pos_tracker) :
                       pos_tracker[n] = StepToward(TrackedBefore(n), pos_target)
                /\ pos_tracker[Len(pos_tracker)] = pos_self
                /\ Len(pos_tracker) = ChebyshevDistance(pos_before, pos_target) - 1

\* A self five columns and two rows away : two diagonal steps, then two
\* straight ones.
C12_Witness ==
    /\ pos_pc = "done"
    /\ pos_target[1] - pos_before[1] = 5
    /\ pos_target[2] - pos_before[2] = -2
    /\ Len(pos_tracker) = 4
    /\ pos_tracker[2] = <<pos_before[1] + 2, pos_before[2] - 2>>
    /\ pos_tracker[4] = <<pos_before[1] + 4, pos_before[2] - 2>>
    /\ pos_self = pos_tracker[4]

\* A self already next to the target : nothing moves.
C12_WitnessAdjacent ==
    /\ pos_pc = "done"
    /\ pos_before # pos_target
    /\ pos_self = pos_before
    /\ pos_tracker = <<>>


(***************************************************************************)
(* src/day4/mod.rs : ship_unload_overlaps                                  *)
(*                                                                         *)
(* A Result is Answer(val) or Failure; an index out of bounds is Panic.    *)
(***************************************************************************)
MaxPairLines == 3

WellFormedPairs == {"2-4,6-8", "5-7,7-9", "2-8,3-7"}

\* a non-numeric bound; a missing '-'; a missing ','
MalformedPairs == {"2-4,6-x", "24,6-8", "2-4"}

\* The number of characters of s before the first sep, Len(s) without one.
RECURSIVE Before(_, _)
Before(s, sep) ==
    IF s = "" \/ Take(s, 1) = sep THEN 0 ELSE 1 + Before(Drop(s, 1), sep)

\* str::split : the pieces of s between the occurrences of sep
RECURSIVE split_at(_, _, _)
split_at(s, sep, n) ==
    IF n = Len(s) THEN <<s>>
    ELSE <<Take(s, n)>> \o split_at(Drop(s, n + 1), sep, Before(Drop(s, n + 1), sep))

split(s, sep) == split_at(s, sep, Before(s, sep))

\* the digits of x, after the '+' that u32::from_str allows
unsigned_digits(x) == IF Take(x, 1) = "+" THEN Drop(x, 1) ELSE x

all_digits(ds) == ds # "" /\ Len(ds) <= 9 /\ PrefixLen(ds, Range(Digits)) = Len(ds)

\* x.parse::<u32>().map_err(|_| ParseError {}) ; numbers of 10 digits or
\* more, which no input here has, are out of range
parse_u32(x) ==
    IF all_digits(unsigned_digits(x)) THEN Answer(DecimalValue(unsigned_digits(x)))
    ELSE Failure

\* process_results over fallible items taken in order : the first Err (or
\* the panic met before it) ends the iteration, else the values are collected
first_failure_or_values(results) ==
    IF \E k \in 1..Len(results) : results[k].kind # "Ok"
    THEN results[CHOOSE k \in 1..Len(results) :
                    /\ results[k].kind # "Ok"
                    /\ \A j \in 1..(k - 1) : results[j].kind = "Ok"]
    ELSE Answer([k \in 1..Len(results) |-> results[k].val])

parse_each(pieces) == [k \in 1..Len(pieces) |-> parse_u32(pieces[k])]

parse_tokens(s, sep) == first_failure_or_values(parse_each(split(s, sep)))

\* v[0] and v[1] of a collected Vec : a panic when the Vec is shorter
first_two(collected) ==
    IF collected.kind # "Ok" THEN collected
    ELSE IF Len(collected.val) < 2 THEN Panic
    ELSE Answer(<<collected.val[1], collected.val[2]>>)

\* Ok(bounds[0]..=bounds[1]), a range being <<start, end>>
parse_range(s) == first_two(parse_tokens(s, "-"))

parse_each_range(pieces) == [k \in 1..Len(pieces) |-> parse_range(pieces[k])]

\* (ranges[0].clone(), ranges[1].clone())
parse_line(s) == first_two(first_failure_or_values(parse_each_range(split(s, ","))))

\* RangeInclusive::contains
contains(range, v) == range[1] <= v /\ v <= range[2]

range_overlaps(range, candidate) ==
    contains(range, candidate[1]) \/ contains(range, candidate[2])

\* .unwrap_or((0..=0, 1..=1))
unwrap_or_disjoint(parsed) ==
    IF parsed.kind = "Ok" THEN parsed.val ELSE <<<<0, 0>>, <<1, 1>>>>

\* the filter's predicate
pair_overlaps(pair) == range_overlaps(pair[1], pair[2]) \/ range_overlaps(pair[2], pair[1])

InitDay4 ==
    /\ d4_lines \in SeqsUpTo(WellFormedPairs \cup MalformedPairs, MaxPairLines)
    /\ d4_idx = 0
    /\ d4_count = 0
    /\ d4_pc = "lines"
    /\ d4_result = <<>>
    /\ IdleOthers("day4")

\* map, filter and count for the next line
CountLine ==
    /\ d4_pc = "lines"
    /\ d4_idx < Len(d4_lines)
    /\ parse_line(d4_lines[d4_idx + 1]).kind # "panic"
    /\ d4_idx' = d4_idx + 1
    /\ d4_count' = IF pair_overlaps(unwrap_or_disjoint(parse_line(d4_lines[d4_idx + 1])))
                   THEN d4_count + 1 ELSE d4_count
    /\ UNCHANGED <<d4_lines, d4_pc, d4_result>>
    /\ Others("day4")

\* bounds[1] or ranges[1] is out of bounds for the next line
LinePanics ==
    /\ d4_pc = "lines"
    /\ d4_idx < Len(d4_lines)
    /\ parse_line(d4_lines[d4_idx + 1]).kind = "panic"
    /\ d4_result' = Panic
    /\ d4_pc' = "done"
    /\ UNCHANGED <<d4_lines, d4_idx, d4_count>>
    /\ Others("day4")

ShipUnloadOverlapsReturn ==
    /\ d4_pc = "lines"
    /\ d4_idx = Len(d4_lines)
    /\ d4_result' = Answer(d4_count)
    /\ d4_pc' = "done"
    /\ UNCHANGED <<d4_lines, d4_idx, d4_count>>
    /\ Others("day4")

NextDay4 ==
    \/ CountLine
    \/ LinePanics
    \/ ShipUnloadOverlapsReturn

SpecDay4 == InitDay4 /\ [][NextDay4]_vars

\* a-b,c-d with unsigned integer bounds
IsPairLine(line) ==
    /\ Len(split(line, ",")) = 2
    /\ \A k \in 1..2 :
        /\ Len(split(split(line, ",")[k], "-")) = 2
        /\ \A j \in 1..2 : all_digits(split(split(line, ",")[k], "-")[j])

MaxMapRows == 3

\* Two rows that make a well-formed map with a path of 25 steps, a short
\* row, a row with a character that is no elevation, a row without a cell.
MapRows == {"abcdefghijklm", "Eyxwvutsrqpon", "a", "ab", "a-cdefghijklm", ""}

\* v.chars().collect()
chars(v) == [k \in 1..Len(v) |-> SubSeq(v, k, k)]

\* reader.lines() ... .map(|v| v.chars().collect()).collect()
map_of(lines) == [k \in 1..Len(lines) |-> chars(lines[k])]

\* to_elevation reaches unreachable!()
is_elevation(c) == c = ROAD_START \/ c = ROAD_END \/ c \in Range(Lowercase)

\* The visit of cell (i, j) by the two for loops panics: to_elevation on
\* map[i][j], map[i - 1][j] out of bounds, or Graph::add_edge on a neighbour
\* index that is not yet a node (nodes 0..node exist at that point).
cell_panics(m, width, i, j) ==
    \/ ~is_elevation(m[i + 1][j + 1])
    \/ i > 0 /\ j >= Len(m[i])
    \/ i > 0 /\ (i - 1) * width + j > added_node(m, i, j)
    \/ j > 0 /\ i * width + j - 1 > added_node(m, i, j)

\* build_journey panics: map[0] on an empty map, a cell visit, or
\* end_node.unwrap() on None
build_journey_panics(m) ==
    \/ m = <<>>
    \/ \E c \in Range(cells_in_order(m, 0)) : cell_panics(m, Len(m[1]), c[1], c[2])
    \/ \A c \in Range(cells_in_order(m, 0)) : m[c[1] + 1][c[2] + 1] # ROAD_END

\* .ok_or_else(|| Error::PathNotFound.into())
ok_or_path_not_found(hops) == IF hops.some THEN Answer(hops.hops) ELSE Failure

great_journey(lines) ==
    IF build_journey_panics(map_of(lines)) THEN Panic
    ELSE ok_or_path_not_found(path_hops(build_journey(map_of(lines))))

InitJourney ==
    /\ gj_lines \in SeqsUpTo(MapRows, MaxMapRows)
    /\ gj_pc = "call"
    /\ gj_result = <<>>
    /\ IdleOthers("journey")

GreatJourney ==
    /\ gj_pc = "call"
    /\ gj_result' = great_journey(gj_lines)
    /\ gj_pc' = "done"
    /\ UNCHANGED gj_lines
    /\ Others("journey")

NextJourney == GreatJourney

SpecJourney == InitJourney /\ [][NextJourney]_vars

\* No E cell, a character other than a-z, S or E, an empty file, or rows of
\* unequal length.
MalformedMap(lines) ==
    \/ lines = <<>>
    \/ \A k \in 1..Len(lines) : \A n \in 1..Len(lines[k]) : SubSeq(lines[k], n, n) # "E"
    \/ \E k \in 1..Len(lines) : \E n \in 1..Len(lines[k]) :
           SubSeq(lines[k], n, n) \notin {"S", "E"} \cup Range(Lowercase)
    \/ \E k, n \in 1..Len(lines) : Len(lines[k]) # Len(lines[n])

\* C14: great_journey returns an error value, neither a panic nor a path
\* length, when the map is malformed: no E cell, a character other than a-z,
\* S or E, an empty file, or rows of unequal length.
C14_MalformedMapIsAnError ==
    (gj_pc = "done" /\ MalformedMap(gj_lines)) => gj_result = Failure


(***************************************************************************)
(* src/day1/mod.rs : calories_carried                                      *)
(***************************************************************************)
MaxCalorieLines == 5

\* an empty line, two numbers, and a line that is no number
CalorieLines == {"", "1", "2", "x"}

\* slice::split(|s| s.is_empty()) : the groups of lines between empty lines
RECURSIVE split_on_empty(_, _)
split_on_empty(lines, group) ==
    IF lines = <<>> THEN <<group>>
    ELSE IF Head(lines) = "" THEN <<group>> \o split_on_empty(Tail(lines), <<>>)
    ELSE split_on_empty(Tail(lines), Append(group, Head(lines)))

\* sl.iter().filter_map(|e| e.parse::<u32>().ok()).sum::<u32>()
RECURSIVE group_sum(_)
group_sum(sl) ==
    IF sl = <<>> THEN 0
    ELSE (IF parse_u32(Head(sl)).kind = "Ok" THEN parse_u32(Head(sl)).val ELSE 0)
         + group_sum(Tail(sl))

group_sums(groups) == [k \in 1..Len(groups) |-> group_sum(groups[k])]

\* v put at its place in the ascending sequence s
RECURSIVE insert_sorted(_, _)
insert_sorted(s, v) ==
    IF s = <<>> THEN <<v>>
    ELSE IF v <= Head(s) THEN <<v>> \o s
    ELSE <<Head(s)>> \o insert_sorted(Tail(s), v)

\* itertools::sorted : ascending
RECURSIVE sorted(_)
sorted(s) == IF s = <<>> THEN <<>> ELSE insert_sorted(sorted(Tail(s)), Head(s))

\* rev(sorted(...)).take(3).sum::<u32>()
calories_carried(lines) ==
    Answer(SumSeq(Take(Reverse(sorted(group_sums(split_on_empty(lines, <<>>)))), 3)))

InitDay1 ==
    /\ d1_lines \in SeqsUpTo(CalorieLines, MaxCalorieLines)
    /\ d1_pc = "call"
    /\ d1_result = <<>>
    /\ IdleOthers("day1")

CaloriesCarried ==
    /\ d1_pc = "call"
    /\ d1_result' = calories_carried(d1_lines)
    /\ d1_pc' = "done"
    /\ UNCHANGED d1_lines
    /\ Others("day1")

NextDay1 == CaloriesCarried

SpecDay1 == InitDay1 /\ [][NextDay1]_vars

\* The lines from the n-th on, up to the next empty line.
RECURSIVE GroupFrom(_, _)
GroupFrom(lines, n) ==
    IF n > Len(lines) \/ lines[n] = "" THEN <<>>
    ELSE <<lines[n]>> \o GroupFrom(lines, n + 1)

\* The sum of the numbers of a group, a line that is no number counting 0.
RECURSIVE NumbersSum(_)
NumbersSum(group) ==
    IF group = <<>> THEN 0
    ELSE (IF all_digits(Head(group)) THEN DecimalValue(Head(group)) ELSE 0)
         + NumbersSum(Tail(group))

\* The sums of the groups of lines separated by empty lines.
ElfCalories(lines) ==
    {NumbersSum(GroupFrom(lines, n)) :
        n \in {k \in 1..(Len(lines) + 1) : k = 1 \/ lines[k - 1] = ""}}

\* C15: calories_carried returns the calories of the most loaded elf, the
\* largest sum of the numbers of a group of lines separated by empty lines.
C15_CaloriesOfMostLoadedElf ==
    d1_pc = "done" => d1_result = Answer(Largest(ElfCalories(d1_lines)))


(***************************************************************************)
(* src/main.rs : where the failure of a day is reported                    *)
(***************************************************************************)
\* The block's function rejected its input.
MalformedInput(k) == outcome[k] \in {"Err", "ErrBase", "ErrStack", "ErrAlt"}

\* The lines written on a stream by the block of a day.
LinesOf(stream, day) == {n \in 1..Len(stream) : stream[n][1] = day}

\* C16: for every day, day 11 included, a failure caused by malformed input
\* is reported on standard error, never on standard output, and no answer
\* line for that day is written to standard output.
C16_MalformedInputReportedOnStderr ==
    \A k \in 1..NbBlocks : MalformedInput(k) =>
        /\ LinesOf(stderr, Blocks[k]) # {}
        /\ LinesOf(stdout, Blocks[k]) = {}


(***************************************************************************)
(* src/day5/mod.rs : create_stacks, called on its own                      *)
(*   A slot is a crate or "" (None); the crates of a stack go from the     *)
(*   bottom (first) to the top (last, where push and pop act).             *)
(***************************************************************************)
MaxSlotLines == 3

MaxSlots == 2

MaxStackIds == 2

Slots == {"", "A", "B"}

SlotLines == SeqsUpTo(Slots, MaxSlots)

InitCreateStacks ==
    /\ cs_specs \in [slot_lines : SeqsUpTo(SlotLines, MaxSlotLines),
                     stack_ids : SeqsUpTo(Range(StackIds), MaxStackIds)]
    /\ cs_pc = "call"
    /\ cs_result = <<>>
    /\ IdleOthers("stacks")

CreateStacks ==
    /\ cs_pc = "call"
    /\ cs_result' = create_stacks(cs_specs)
    /\ cs_pc' = "done"
    /\ UNCHANGED cs_specs
    /\ Others("stacks")

NextCreateStacks == CreateStacks

SpecCreateStacks == InitCreateStacks /\ [][NextCreateStacks]_vars

\* Every slot line has at least as many slots as there are stack ids.
EnoughSlots ==
    \A l \in 1..Len(cs_specs.slot_lines) :
        Len(cs_specs.slot_lines[l]) >= Len(cs_specs.stack_ids)

\* The crates of column i, from slot line n up to the first line, empty
\* slots skipped.
RECURSIVE CratesUpFrom(_, _)
CratesUpFrom(n, i) ==
    IF n = 0 THEN <<>>
    ELSE (IF cs_specs.slot_lines[n][i] = "" THEN <<>> ELSE <<cs_specs.slot_lines[n][i]>>)
         \o CratesUpFrom(n - 1, i)

\* C17: for a StacksSpecification whose slot lines each have at least as many
\* slots as there are stack ids, create_stacks returns one stack per stack
\* id, in the order of stack_ids, and stack i holds from bottom to top the
\* crates of column i read from the last slot line up to the first, empty
\* slots skipped.
C17_CreateStacksReadsColumnsBottomUp ==
    (cs_pc = "done" /\ EnoughSlots) =>
        /\ ~cs_result.panic
        /\ Len(cs_result.stacks) = Len(cs_specs.stack_ids)
        /\ \A i \in 1..Len(cs_specs.stack_ids) :
            /\ cs_result.stacks[i].id = cs_specs.stack_ids[i]
            /\ cs_result.stacks[i].crates = CratesUpFrom(Len(cs_specs.slot_lines), i)

\* Three slot lines for stacks 2 and 1, in this order; the first column holds
\* B under A, the second one has two empty slots above its only crate.
C17_Witness ==
    /\ cs_pc = "done"
    /\ cs_specs.stack_ids = <<"2", "1">>
    /\ cs_specs.slot_lines = << <<"", "">>, <<"A", "">>, <<"B", "A">> >>
    /\ cs_result.stacks = << [id |-> "2", crates |-> <<"B", "A">>],
                             [id |-> "1", crates |-> <<"A">>] >>

====
